---------------------------- MODULE Spec2Model ----------------------------
(***************************************************************************)
(* Denunciations (massa-models/src/denunciation.rs): construction from two *)
(* signed evidence objects, the validity check, the coverage check and the *)
(* wire codec.                                                             *)
(*                                                                         *)
(* Cryptographic primitives are symbolic.  A byte string is a sequence of  *)
(* tokens: a u8 is <<"u8", n>>, and a fixed-size primitive (public key,    *)
(* hash, signature) is FieldWidth tokens <<tag, value, i>>, the i-th      *)
(* being its i-th byte.  A hash is the record [pre |-> bytes] of the bytes *)
(* it was computed from, so two hashes                                     *)
(* are equal exactly when their preimages are (collision freedom).  A      *)
(* signature is [signer, digest, nonce]: it verifies under one key against *)
(* one digest only, and a key holder can produce several signatures of the *)
(* same digest (the nonce).                                                *)
(***************************************************************************)
EXTENDS Integers, Sequences, FiniteSets, TLC

(***************************************************************************)
(* Bounds of the input space.                                              *)
(***************************************************************************)
NumKeys == 2
NumBodies == 2
NumNonces == 2
\* The number of bytes of a fixed-size primitive.
FieldWidth == 2

Keys == 1..NumKeys
\* Body 0 (any body that is not positive) stands for a content the fragment
\* serializer rejects.
Bodies == 0..NumBodies
GoodBodies == 1..NumBodies
Nonces == 0..(NumNonces - 1)

Slot(period, thread) == [period |-> period, thread |-> thread]
\* A slot and the indexes of the module's tests, and a slot whose period takes a
\* two-byte varint.
Slots == {Slot(3, 7), Slot(300, 2)}
Indexes == {0, 9}

(***************************************************************************)
(* Results.                                                                *)
(***************************************************************************)
Ok(v) == [tag |-> "Ok", val |-> v]
Err(e) == [tag |-> "Err", val |-> e]
IsOk(r) == r.tag = "Ok"

InvalidInput == "InvalidInput"
SignatureError == "Signature"
SerializationError == "Serialization"

\* An error value: its kind and, for the two kinds that wrap the error of a callee
\* (#[from]), what the callee failed on.
DenunciationError(kind, source) == [kind |-> kind, source |-> source]

(***************************************************************************)
(* Primitives of the host node.                                            *)
(***************************************************************************)
U8(n) == <<"u8", n>>

RECURSIVE VarInt(_)
VarInt(n) == IF n < 128 THEN <<U8(n)>> ELSE <<U8((n % 128) + 128)>> \o VarInt(n \div 128)

Hash_compute_from(bytes) == [pre |-> bytes]
FixedBytes(tag, value) == [i \in 1..FieldWidth |-> <<tag, value, i>>]

Hash_to_bytes(h) == FixedBytes("hash", h)
PublicKey_to_bytes(pk) == FixedBytes("pk", pk)
Signature_to_bytes(sg) == FixedBytes("sig", sg)

Sign(keypair, digest, nonce) == [signer |-> keypair, digest |-> digest, nonce |-> nonce]

verify_signature(public_key, hash, signature) ==
    IF signature.signer = public_key /\ signature.digest = hash
    THEN Ok(TRUE)
    ELSE Err(DenunciationError(SignatureError, [hash |-> hash, signature |-> signature]))

Slot_to_bytes(slot) == VarInt(slot.period) \o <<U8(slot.thread)>>

EndorsementDenunciationData_to_bytes(slot, index) == Slot_to_bytes(slot) \o VarInt(index)
BlockHeaderDenunciationData_to_bytes(slot) == Slot_to_bytes(slot)

\* Fragment serializers: Ok(bytes), or Err for a content they reject.
EndorsementSerializer_serialize(content) ==
    IF content.endorsed_block <= 0 THEN Err(DenunciationError(SerializationError, content))
    ELSE Ok(Slot_to_bytes(content.slot) \o VarInt(content.index)
            \o <<U8(content.endorsed_block)>>)

BlockHeaderSerializer_serialize(content) ==
    IF content.parents <= 0 THEN Err(DenunciationError(SerializationError, content))
    ELSE Ok(Slot_to_bytes(content.slot) \o <<U8(content.parents)>>)

(***************************************************************************)
(* EndorsementDenunciation / BlockHeaderDenunciation helpers.              *)
(***************************************************************************)
Endo_compute_content_hash(content) ==
    LET buf == EndorsementSerializer_serialize(content)
    IN  IF IsOk(buf) THEN Ok(Hash_compute_from(buf.val)) ELSE buf

\* Mutant: the index is left out of the preimage.
Endo_compute_hash_for_sig_verif_no_index(public_key, slot, index, content_hash) ==
    Ok(Hash_compute_from(PublicKey_to_bytes(public_key)
                         \o BlockHeaderDenunciationData_to_bytes(slot)
                         \o Hash_to_bytes(content_hash)))
\* Mutant: the content hash is written before the slot and the index.
Endo_compute_hash_for_sig_verif_hash_first(public_key, slot, index, content_hash) ==
    Ok(Hash_compute_from(PublicKey_to_bytes(public_key)
                         \o Hash_to_bytes(content_hash)
                         \o EndorsementDenunciationData_to_bytes(slot, index)))


Endo_compute_hash_for_sig_verif(public_key, slot, index, content_hash) ==
    Ok(Hash_compute_from(PublicKey_to_bytes(public_key)
                         \o EndorsementDenunciationData_to_bytes(slot, index)
                         \o Hash_to_bytes(content_hash)))

BlockHeader_compute_content_hash(content) ==
    LET buf == BlockHeaderSerializer_serialize(content)
    IN  IF IsOk(buf) THEN Ok(Hash_compute_from(buf.val)) ELSE buf
\* Mutant: the block header digest is that of an endorsement at index 0.
BlockHeader_compute_hash_for_sig_verif_with_index(public_key, slot, content_hash) ==
    Ok(Hash_compute_from(PublicKey_to_bytes(public_key)
                         \o EndorsementDenunciationData_to_bytes(slot, 0)
                         \o Hash_to_bytes(content_hash)))


BlockHeader_compute_hash_for_sig_verif(public_key, slot, content_hash) ==
    Ok(Hash_compute_from(PublicKey_to_bytes(public_key)
                         \o BlockHeaderDenunciationData_to_bytes(slot)
                         \o Hash_to_bytes(content_hash)))

(***************************************************************************)
(* Denunciation: a record tagged by its variant.                           *)
(***************************************************************************)
EndorsementDenunciation(public_key, slot, index, hash_1, hash_2, signature_1, signature_2) ==
    [variant |-> "Endorsement", public_key |-> public_key, slot |-> slot, index |-> index,
     hash_1 |-> hash_1, hash_2 |-> hash_2,
     signature_1 |-> signature_1, signature_2 |-> signature_2]

BlockHeaderDenunciation(public_key, slot, hash_1, hash_2, signature_1, signature_2) ==
    [variant |-> "BlockHeader", public_key |-> public_key, slot |-> slot,
     hash_1 |-> hash_1, hash_2 |-> hash_2,
     signature_1 |-> signature_1, signature_2 |-> signature_2]

is_for_endorsement(de) == de.variant = "Endorsement"

\* Mutant: is_for_block_header matches the Endorsement pattern.
is_for_block_header_endorsement_pattern(de) == de.variant = "Endorsement"

is_for_block_header(de) == de.variant = "BlockHeader"

\* The first half of is_valid: the two signing digests recomputed from the stored
\* fields; a failure of either computation is propagated ("?").
is_valid_hashes(de) ==
    IF is_for_endorsement(de)
    THEN LET hash_1 == Endo_compute_hash_for_sig_verif(de.public_key, de.slot, de.index, de.hash_1)
             hash_2 == Endo_compute_hash_for_sig_verif(de.public_key, de.slot, de.index, de.hash_2)
         IN  IF ~IsOk(hash_1) THEN hash_1
             ELSE IF ~IsOk(hash_2) THEN hash_2
             ELSE Ok(<<hash_1.val, hash_2.val>>)
    ELSE LET hash_1 == BlockHeader_compute_hash_for_sig_verif(de.public_key, de.slot, de.hash_1)
             hash_2 == BlockHeader_compute_hash_for_sig_verif(de.public_key, de.slot, de.hash_2)
         IN  IF ~IsOk(hash_1) THEN hash_1
             ELSE IF ~IsOk(hash_2) THEN hash_2
             ELSE Ok(<<hash_1.val, hash_2.val>>)

\* Mutant: signature_2 is not verified.
is_valid_second_unverified(de) ==
    LET hashes == is_valid_hashes(de)
    IN  IF ~IsOk(hashes) THEN hashes
        ELSE LET hash_1 == hashes.val[1]
                 hash_2 == hashes.val[2]
             IN  Ok(/\ hash_1 # hash_2
                    /\ de.signature_1 # de.signature_2
                    /\ IsOk(verify_signature(de.public_key, hash_1, de.signature_1)))

\* Mutant: signature_1 is not verified.
is_valid_first_unverified(de) ==
    LET hashes == is_valid_hashes(de)
    IN  IF ~IsOk(hashes) THEN hashes
        ELSE LET hash_1 == hashes.val[1]
                 hash_2 == hashes.val[2]
             IN  Ok(/\ hash_1 # hash_2
                    /\ de.signature_1 # de.signature_2
                    /\ IsOk(verify_signature(de.public_key, hash_2, de.signature_2)))

\* Mutant: the two digests are not compared.
is_valid_hashes_uncompared(de) ==
    LET hashes == is_valid_hashes(de)
    IN  IF ~IsOk(hashes) THEN hashes
        ELSE LET hash_1 == hashes.val[1]
                 hash_2 == hashes.val[2]
             IN  Ok(/\ de.signature_1 # de.signature_2
                    /\ IsOk(verify_signature(de.public_key, hash_1, de.signature_1))
                    /\ IsOk(verify_signature(de.public_key, hash_2, de.signature_2)))

\* Mutant: a failed verification is propagated with "?" instead of folded by is_ok().
is_valid_verify_propagates(de) ==
    LET hashes == is_valid_hashes(de)
    IN  IF ~IsOk(hashes) THEN hashes
        ELSE LET hash_1 == hashes.val[1]
                 hash_2 == hashes.val[2]
                 v1 == verify_signature(de.public_key, hash_1, de.signature_1)
                 v2 == verify_signature(de.public_key, hash_2, de.signature_2)
             IN  IF ~IsOk(v1) THEN v1
                 ELSE IF ~IsOk(v2) THEN v2
                 ELSE Ok(hash_1 # hash_2 /\ de.signature_1 # de.signature_2)

is_valid(de) ==
    LET hashes == is_valid_hashes(de)
    IN  IF ~IsOk(hashes) THEN hashes
        ELSE LET hash_1 == hashes.val[1]
                 hash_2 == hashes.val[2]
             IN  Ok(/\ hash_1 # hash_2
                    /\ de.signature_1 # de.signature_2
                    /\ IsOk(verify_signature(de.public_key, hash_1, de.signature_1))
                    /\ IsOk(verify_signature(de.public_key, hash_2, de.signature_2)))

(***************************************************************************)
(* Evidence: a SecureShare of an Endorsement or of a BlockHeader.          *)
(***************************************************************************)
SecureShare(content, signature, content_creator_pub_key, id) ==
    [content |-> content, signature |-> signature,
     content_creator_pub_key |-> content_creator_pub_key, id |-> id]

\* try_from for two endorsements, in the three stages of its body: the InvalidInput
\* checks, the content hashes and signing digests, and the two verifications with
\* the assembly of the result.
\* Mutant: the indexes are not compared.
try_from_endorsements_checks_no_index(s_e1, s_e2) ==
    \/ s_e1.id = s_e2.id
    \/ s_e1.content.slot # s_e2.content.slot
    \/ s_e1.content_creator_pub_key # s_e2.content_creator_pub_key

try_from_endorsements_checks(s_e1, s_e2) ==
    \/ s_e1.id = s_e2.id
    \/ s_e1.content.slot # s_e2.content.slot
    \/ s_e1.content.index # s_e2.content.index
    \/ s_e1.content_creator_pub_key # s_e2.content_creator_pub_key

try_from_endorsements_hashes(s_e1, s_e2) ==
    LET s_e1_hash_content == Endo_compute_content_hash(s_e1.content) IN
    IF ~IsOk(s_e1_hash_content) THEN s_e1_hash_content
    ELSE LET s_e1_hash == Endo_compute_hash_for_sig_verif(s_e1.content_creator_pub_key,
                              s_e1.content.slot, s_e1.content.index, s_e1_hash_content.val) IN
    IF ~IsOk(s_e1_hash) THEN s_e1_hash
    ELSE LET s_e2_hash_content == Endo_compute_content_hash(s_e2.content) IN
    IF ~IsOk(s_e2_hash_content) THEN s_e2_hash_content
    ELSE LET s_e2_hash == Endo_compute_hash_for_sig_verif(s_e1.content_creator_pub_key,
                              s_e1.content.slot, s_e1.content.index, s_e2_hash_content.val) IN
    IF ~IsOk(s_e2_hash) THEN s_e2_hash
    ELSE Ok([hash_content_1 |-> s_e1_hash_content.val, hash_1 |-> s_e1_hash.val,
             hash_content_2 |-> s_e2_hash_content.val, hash_2 |-> s_e2_hash.val])

\* Mutant: the result of the second verification is dropped.
try_from_endorsements_verify_first_only(s_e1, s_e2, h) ==
    LET v1 == verify_signature(s_e1.content_creator_pub_key, h.hash_1, s_e1.signature) IN
    IF ~IsOk(v1) THEN v1
    ELSE Ok(EndorsementDenunciation(s_e1.content_creator_pub_key, s_e1.content.slot,
                                    s_e1.content.index, h.hash_content_1, h.hash_content_2,
                                    s_e1.signature, s_e2.signature))
\* Mutant: the signature of the second object is verified before that of the first.
try_from_endorsements_verify_second_first(s_e1, s_e2, h) ==
    LET v2 == verify_signature(s_e1.content_creator_pub_key, h.hash_2, s_e2.signature) IN
    IF ~IsOk(v2) THEN v2
    ELSE LET v1 == verify_signature(s_e1.content_creator_pub_key, h.hash_1, s_e1.signature) IN
    IF ~IsOk(v1) THEN v1
    ELSE Ok(EndorsementDenunciation(s_e1.content_creator_pub_key, s_e1.content.slot,
                                    s_e1.content.index, h.hash_content_1, h.hash_content_2,
                                    s_e1.signature, s_e2.signature))


try_from_endorsements_verify(s_e1, s_e2, h) ==
    LET v1 == verify_signature(s_e1.content_creator_pub_key, h.hash_1, s_e1.signature) IN
    IF ~IsOk(v1) THEN v1
    ELSE LET v2 == verify_signature(s_e1.content_creator_pub_key, h.hash_2, s_e2.signature) IN
    IF ~IsOk(v2) THEN v2
    ELSE Ok(EndorsementDenunciation(s_e1.content_creator_pub_key, s_e1.content.slot,
                                    s_e1.content.index, h.hash_content_1, h.hash_content_2,
                                    s_e1.signature, s_e2.signature))

\* Mutant: the InvalidInput checks come after the hashing and the verifications.
try_from_endorsements_checks_late(s_e1, s_e2) ==
    LET h == try_from_endorsements_hashes(s_e1, s_e2)
    IN  IF ~IsOk(h) THEN h
        ELSE LET r == try_from_endorsements_verify(s_e1, s_e2, h.val)
             IN  IF ~IsOk(r) THEN r
                 ELSE IF try_from_endorsements_checks(s_e1, s_e2) THEN Err(DenunciationError(InvalidInput, << >>))
                 ELSE r

try_from_endorsements(s_e1, s_e2) ==
    IF try_from_endorsements_checks(s_e1, s_e2) THEN Err(DenunciationError(InvalidInput, << >>))
    ELSE LET h == try_from_endorsements_hashes(s_e1, s_e2)
         IN  IF ~IsOk(h) THEN h ELSE try_from_endorsements_verify(s_e1, s_e2, h.val)

\* try_from for two block headers, in the same three stages.
try_from_block_headers_checks(s_bh1, s_bh2) ==
    \/ s_bh1.content.slot # s_bh2.content.slot
    \/ s_bh1.content_creator_pub_key # s_bh2.content_creator_pub_key
    \/ s_bh1.id = s_bh2.id

try_from_block_headers_hashes(s_bh1, s_bh2) ==
    LET s_bh1_hash_content == BlockHeader_compute_content_hash(s_bh1.content) IN
    IF ~IsOk(s_bh1_hash_content) THEN s_bh1_hash_content
    ELSE LET s_bh1_hash == BlockHeader_compute_hash_for_sig_verif(s_bh1.content_creator_pub_key,
                               s_bh1.content.slot, s_bh1_hash_content.val) IN
    IF ~IsOk(s_bh1_hash) THEN s_bh1_hash
    ELSE LET s_bh2_hash_content == BlockHeader_compute_content_hash(s_bh2.content) IN
    IF ~IsOk(s_bh2_hash_content) THEN s_bh2_hash_content
    ELSE LET s_bh2_hash == BlockHeader_compute_hash_for_sig_verif(s_bh1.content_creator_pub_key,
                               s_bh1.content.slot, s_bh2_hash_content.val) IN
    IF ~IsOk(s_bh2_hash) THEN s_bh2_hash
    ELSE Ok([hash_content_1 |-> s_bh1_hash_content.val, hash_1 |-> s_bh1_hash.val,
             hash_content_2 |-> s_bh2_hash_content.val, hash_2 |-> s_bh2_hash.val])

\* Mutant: the two signatures are stored in each other's place.
try_from_block_headers_verify_swapped(s_bh1, s_bh2, h) ==
    LET v1 == verify_signature(s_bh1.content_creator_pub_key, h.hash_1, s_bh1.signature) IN
    IF ~IsOk(v1) THEN v1
    ELSE LET v2 == verify_signature(s_bh1.content_creator_pub_key, h.hash_2, s_bh2.signature) IN
    IF ~IsOk(v2) THEN v2
    ELSE Ok(BlockHeaderDenunciation(s_bh1.content_creator_pub_key, s_bh1.content.slot,
                                    h.hash_content_1, h.hash_content_2,
                                    s_bh2.signature, s_bh1.signature))

try_from_block_headers_verify(s_bh1, s_bh2, h) ==
    LET v1 == verify_signature(s_bh1.content_creator_pub_key, h.hash_1, s_bh1.signature) IN
    IF ~IsOk(v1) THEN v1
    ELSE LET v2 == verify_signature(s_bh1.content_creator_pub_key, h.hash_2, s_bh2.signature) IN
    IF ~IsOk(v2) THEN v2
    ELSE Ok(BlockHeaderDenunciation(s_bh1.content_creator_pub_key, s_bh1.content.slot,
                                    h.hash_content_1, h.hash_content_2,
                                    s_bh1.signature, s_bh2.signature))

try_from_block_headers(s_bh1, s_bh2) ==
    IF try_from_block_headers_checks(s_bh1, s_bh2) THEN Err(DenunciationError(InvalidInput, << >>))
    ELSE LET h == try_from_block_headers_hashes(s_bh1, s_bh2)
         IN  IF ~IsOk(h) THEN h ELSE try_from_block_headers_verify(s_bh1, s_bh2, h.val)

(***************************************************************************)
(* The signer's side.  The digest an author signs binds its public key and *)
(* the position to the content hash; honest signing signs that digest and  *)
(* derives the id of the signed object from it                             *)
(* (SecureShareContent::new_verifiable).                                   *)
(***************************************************************************)
preimage_endorsement(pk, slot, index, content_hash) ==
    PublicKey_to_bytes(pk) \o Slot_to_bytes(slot) \o VarInt(index) \o Hash_to_bytes(content_hash)
preimage_block_header(pk, slot, content_hash) ==
    PublicKey_to_bytes(pk) \o Slot_to_bytes(slot) \o Hash_to_bytes(content_hash)
signing_digest(preimage) == Hash_compute_from(preimage)

content_hash_endorsement(e) == Hash_compute_from(EndorsementSerializer_serialize(e).val)
content_hash_block_header(h) == Hash_compute_from(BlockHeaderSerializer_serialize(h).val)

Endorsement_new_verifiable(content, keypair, nonce) ==
    LET digest == signing_digest(preimage_endorsement(keypair, content.slot, content.index,
                                     content_hash_endorsement(content)))
    IN  SecureShare(content, Sign(keypair, digest, nonce), keypair, digest)

BlockHeader_new_verifiable(content, keypair, nonce) ==
    LET digest == signing_digest(preimage_block_header(keypair, content.slot,
                                     content_hash_block_header(content)))
    IN  SecureShare(content, Sign(keypair, digest, nonce), keypair, digest)

(***************************************************************************)
(* The inputs.  An evidence object is any SecureShare a peer can send: its *)
(* fields are public, so the signature and the id need not match the       *)
(* content.  The signatures tried are those over a tuple (signer, public   *)
(* key, slot, index, content hash) that differs from the object's own in   *)
(* at most one place.                                                      *)
(***************************************************************************)
Endorsement(slot, index, endorsed_block) ==
    [slot |-> slot, index |-> index, endorsed_block |-> endorsed_block]
BlockHeader(slot, parents) == [slot |-> slot, parents |-> parents]

Diff(x, y) == IF x = y THEN 0 ELSE 1

EndoSigsNear(pk, slot, index, hash, hashes, nonces) ==
    { Sign(k, signing_digest(preimage_endorsement(p, s, i, h)), n) :
        <<k, p, s, i, h, n>> \in
            { t \in Keys \X Keys \X Slots \X Indexes \X hashes \X nonces :
                Diff(t[1], pk) + Diff(t[2], pk) + Diff(t[3], slot)
                    + Diff(t[4], index) + Diff(t[5], hash) <= 1 } }

BlockHeaderSigsNear(pk, slot, hash, hashes, nonces) ==
    { Sign(k, signing_digest(preimage_block_header(p, s, h)), n) :
        <<k, p, s, h, n>> \in
            { t \in Keys \X Keys \X Slots \X hashes \X nonces :
                Diff(t[1], pk) + Diff(t[2], pk) + Diff(t[3], slot)
                    + Diff(t[4], hash) <= 1 } }

\* The content hashes of the endorsements (block headers) at a slot and index.
EndoHashes(slot, index) ==
    { content_hash_endorsement(Endorsement(slot, index, b)) : b \in GoodBodies }
BlockHeaderHashes(slot) ==
    { content_hash_block_header(BlockHeader(slot, b)) : b \in GoodBodies }

\* The content hash the signatures of an object are built around: its own, or, for
\* a content that does not serialize, that of the first content that does.
EndoRefHash(c) ==
    content_hash_endorsement(
        IF c.endorsed_block <= 0 THEN Endorsement(c.slot, c.index, 1) ELSE c)
BlockHeaderRefHash(c) ==
    content_hash_block_header(
        IF c.parents <= 0 THEN BlockHeader(c.slot, 1) ELSE c)

BogusId == Hash_compute_from(<< >>)

EndoEvidenceFor(pk, c, nonces) ==
    { SecureShare(c, sg, pk, id) :
        sg \in EndoSigsNear(pk, c.slot, c.index, EndoRefHash(c),
                            EndoHashes(c.slot, c.index), nonces),
        id \in { signing_digest(preimage_endorsement(pk, c.slot, c.index, EndoRefHash(c))),
                 BogusId } }

BlockHeaderEvidenceFor(pk, c, nonces) ==
    { SecureShare(c, sg, pk, id) :
        sg \in BlockHeaderSigsNear(pk, c.slot, BlockHeaderRefHash(c),
                                   BlockHeaderHashes(c.slot), nonces),
        id \in { signing_digest(preimage_block_header(pk, c.slot, BlockHeaderRefHash(c))),
                 BogusId } }

\* The first object of a pair is at a fixed key, slot and index (the second ranges
\* over all of them, so every relation between the two occurs).
First == [key |-> 1, slot |-> Slot(3, 7), index |-> 0]

\* Hand-assembled denunciations (test_forge_invalid_denunciation): any key, slot and
\* index, two content hashes of endorsements (block headers) of that index at any
\* slot, and for each hash a signature over a tuple that differs from the
\* denunciation's own in at most one place.
EndoHashPool(index) == UNION { EndoHashes(s, index) : s \in Slots }
BlockHeaderHashPool == UNION { BlockHeaderHashes(s) : s \in Slots }

ForgedEndoAt(pk, slot, index, h1, h2) ==
    { EndorsementDenunciation(pk, slot, index, h1, h2, sg1, sg2) :
        sg1 \in EndoSigsNear(pk, slot, index, h1, EndoHashPool(index), Nonces),
        sg2 \in EndoSigsNear(pk, slot, index, h2, EndoHashPool(index), Nonces) }

ForgedBlockHeaderAt(pk, slot, h1, h2) ==
    { BlockHeaderDenunciation(pk, slot, h1, h2, sg1, sg2) :
        sg1 \in BlockHeaderSigsNear(pk, slot, h1, BlockHeaderHashPool, Nonces),
        sg2 \in BlockHeaderSigsNear(pk, slot, h2, BlockHeaderHashPool, Nonces) }

(***************************************************************************)
(* The state: the inputs of the last constructor call and its result, the  *)
(* denunciation at hand (constructed, or assembled by hand), and the       *)
(* result of is_valid on it.                                               *)
(***************************************************************************)
VARIABLES origin, s_1, s_2, res, de, valid,
          s_3, also,
          de_ser, buffer, de_der, der_res

\* The third evidence object and the result of is_also_for on it.
also_vars == <<s_3, also>>
\* The serializer used, the bytes at hand, the deserializer used and its result.
codec_vars == <<de_ser, buffer, de_der, der_res>>

vars == <<origin, s_1, s_2, res, de, valid, also_vars, codec_vars>>

None == [tag |-> "None", val |-> 0]
Some(v) == [tag |-> "Some", val |-> v]

Init ==
    /\ origin = "none"
    /\ s_1 = None
    /\ s_2 = None
    /\ res = None
    /\ de = None
    /\ valid = None
    /\ s_3 = None
    /\ also = None
    /\ de_ser = None
    /\ buffer = None
    /\ de_der = None
    /\ der_res = None

TryFromEndorsements ==
    /\ origin = "none"
    /\ \E b1 \in Bodies, pk \in Keys, s \in Slots, i \in Indexes, b2 \in Bodies :
       \E s_e1 \in EndoEvidenceFor(First.key, Endorsement(First.slot, First.index, b1), Nonces),
          s_e2 \in EndoEvidenceFor(pk, Endorsement(s, i, b2), Nonces) :
         /\ s_1' = s_e1
         /\ s_2' = s_e2
         /\ res' = try_from_endorsements(s_e1, s_e2)
    /\ de' = IF IsOk(res') THEN Some(res'.val) ELSE None
    /\ origin' = "endorsements"
    /\ UNCHANGED <<valid, also_vars, codec_vars>>

TryFromBlockHeaders ==
    /\ origin = "none"
    /\ \E b1 \in Bodies, pk \in Keys, s \in Slots, b2 \in Bodies :
       \E s_bh1 \in BlockHeaderEvidenceFor(First.key, BlockHeader(First.slot, b1), Nonces),
          s_bh2 \in BlockHeaderEvidenceFor(pk, BlockHeader(s, b2), Nonces) :
         /\ s_1' = s_bh1
         /\ s_2' = s_bh2
         /\ res' = try_from_block_headers(s_bh1, s_bh2)
    /\ de' = IF IsOk(res') THEN Some(res'.val) ELSE None
    /\ origin' = "block_headers"
    /\ UNCHANGED <<valid, also_vars, codec_vars>>

ForgeEndorsementDenunciation ==
    /\ origin = "none"
    /\ \E pk \in Keys, s \in Slots, i \in Indexes :
       \E h1 \in EndoHashPool(i), h2 \in EndoHashPool(i) :
       \E d \in ForgedEndoAt(pk, s, i, h1, h2) :
         de' = Some(d)
    /\ origin' = "forged"
    /\ UNCHANGED <<s_1, s_2, res, valid, also_vars, codec_vars>>

ForgeBlockHeaderDenunciation ==
    /\ origin = "none"
    /\ \E pk \in Keys, s \in Slots :
       \E h1 \in BlockHeaderHashPool, h2 \in BlockHeaderHashPool :
       \E d \in ForgedBlockHeaderAt(pk, s, h1, h2) :
         de' = Some(d)
    /\ origin' = "forged"
    /\ UNCHANGED <<s_1, s_2, res, valid, also_vars, codec_vars>>

IsValid ==
    /\ origin # "none"
    /\ de.tag = "Some"
    /\ valid.tag = "None"
    /\ valid' = is_valid(de.val)
    /\ UNCHANGED <<origin, s_1, s_2, res, de, also_vars, codec_vars>>

Next ==
    \/ TryFromEndorsements
    \/ TryFromBlockHeaders
    \/ ForgeEndorsementDenunciation
    \/ ForgeBlockHeaderDenunciation
    \/ IsValid

Spec == Init /\ [][Next]_vars

(***************************************************************************)
(* is_also_for_endorsement / is_also_for_block_header: whether a third     *)
(* signed object is covered by the denunciation.  A failure to compute the *)
(* content hash is propagated ("?"); a failure to compute the signing      *)
(* digest gives Ok(false).                                                 *)
(***************************************************************************)
\* Mutant: hash_2 is not compared.
is_also_for_endorsement_first_hash_only(de_, s_endorsement) ==
    IF de_.variant = "BlockHeader" THEN Ok(FALSE)
    ELSE LET content_hash == Endo_compute_content_hash(s_endorsement.content)
         IN  IF ~IsOk(content_hash) THEN content_hash
             ELSE LET hash_ == Endo_compute_hash_for_sig_verif(
                                   de_.public_key, de_.slot, de_.index, content_hash.val)
                  IN  IF IsOk(hash_)
                      THEN Ok(/\ de_.slot = s_endorsement.content.slot
                              /\ de_.index = s_endorsement.content.index
                              /\ de_.public_key = s_endorsement.content_creator_pub_key
                              /\ de_.hash_1 # content_hash.val
                              /\ IsOk(verify_signature(de_.public_key, hash_.val,
                                                       s_endorsement.signature)))
                      ELSE Ok(FALSE)

is_also_for_endorsement(de_, s_endorsement) ==
    IF de_.variant = "BlockHeader" THEN Ok(FALSE)
    ELSE LET content_hash == Endo_compute_content_hash(s_endorsement.content)
         IN  IF ~IsOk(content_hash) THEN content_hash
             ELSE LET hash_ == Endo_compute_hash_for_sig_verif(
                                   de_.public_key, de_.slot, de_.index, content_hash.val)
                  IN  IF IsOk(hash_)
                      THEN Ok(/\ de_.slot = s_endorsement.content.slot
                              /\ de_.index = s_endorsement.content.index
                              /\ de_.public_key = s_endorsement.content_creator_pub_key
                              /\ de_.hash_1 # content_hash.val
                              /\ de_.hash_2 # content_hash.val
                              /\ IsOk(verify_signature(de_.public_key, hash_.val,
                                                       s_endorsement.signature)))
                      ELSE Ok(FALSE)

is_also_for_block_header(de_, s_block_header) ==
    IF de_.variant = "Endorsement" THEN Ok(FALSE)
    ELSE LET content_hash == BlockHeader_compute_content_hash(s_block_header.content)
         IN  IF ~IsOk(content_hash) THEN content_hash
             ELSE LET hash_ == BlockHeader_compute_hash_for_sig_verif(
                                   de_.public_key, de_.slot, content_hash.val)
                  IN  IF IsOk(hash_)
                      THEN Ok(/\ de_.slot = s_block_header.content.slot
                              /\ de_.public_key = s_block_header.content_creator_pub_key
                              /\ de_.hash_1 # content_hash.val
                              /\ de_.hash_2 # content_hash.val
                              /\ IsOk(verify_signature(de_.public_key, hash_.val,
                                                       s_block_header.signature)))
                      ELSE Ok(FALSE)

(***************************************************************************)
(* The wire codec.  A parser returns Ok([rem, val]), the unconsumed input  *)
(* and the value read, or Err(contexts): the context labels the error      *)
(* passed through, innermost first.                                        *)
(***************************************************************************)
ParseOk(rem, val) == Ok([rem |-> rem, val |-> val])
ParseError == Err(<< >>)

context(label, r) == IF IsOk(r) THEN r ELSE Err(Append(r.val, label))

\* Unsigned varint: groups of 7 bits, least significant first, the high bit set
\* on every byte but the last.
RECURSIVE VarInt_decode(_)
VarInt_decode(input) ==
    IF input = << >> THEN ParseError
    ELSE IF Head(input)[1] # "u8" THEN ParseError
    ELSE LET b == Head(input)[2]
         IN  IF b < 128 THEN ParseOk(Tail(input), b)
             ELSE LET r == VarInt_decode(Tail(input))
                  IN  IF IsOk(r) THEN ParseOk(r.val.rem, (b - 128) + 128 * r.val.val)
                      ELSE r

\* U32VarIntDeserializer::new(Included(min), Excluded(max)).
U32VarIntDeserializer_deserialize(min, max, input) ==
    LET r == VarInt_decode(input)
    IN  IF IsOk(r) /\ ~(min <= r.val.val /\ r.val.val < max) THEN ParseError ELSE r

\* SlotDeserializer::new((Included(0), Included(u64::MAX)), (Included(0),
\* Excluded(thread_count))): a varint period, then one byte of thread.
SlotDeserializer_deserialize(thread_count, input) ==
    LET p == VarInt_decode(input)
    IN  IF ~IsOk(p) THEN p
        ELSE LET rest == p.val.rem
             IN  IF rest = << >> THEN ParseError
                 ELSE IF Head(rest)[1] # "u8" THEN ParseError
                 ELSE IF ~(0 <= Head(rest)[2] /\ Head(rest)[2] < thread_count) THEN ParseError
                 ELSE ParseOk(Tail(rest), Slot(p.val.val, Head(rest)[2]))

\* A fixed-size primitive: the next FieldWidth bytes, which must be the bytes of
\* one value of the primitive.
FixedDeserializer_deserialize(tag, input) ==
    IF Len(input) < FieldWidth THEN ParseError
    ELSE LET first == input[1]
         IN  IF first[1] # tag THEN ParseError
             ELSE IF SubSeq(input, 1, FieldWidth) # FixedBytes(tag, first[2]) THEN ParseError
             ELSE ParseOk(SubSeq(input, FieldWidth + 1, Len(input)), first[2])

PublicKeyDeserializer_deserialize(input) == FixedDeserializer_deserialize("pk", input)
HashDeserializer_deserialize(input) == FixedDeserializer_deserialize("hash", input)
SignatureDeserializer_deserialize(input) == FixedDeserializer_deserialize("sig", input)

\* serialize(value, buffer) appends to the buffer; it always returns Ok(()), and
\* what is modelled is the buffer it leaves.
\* Mutant: the buffer is cleared before the body is written.
EndorsementDenunciationSerializer_serialize_overwrites(value, buf) ==
    PublicKey_to_bytes(value.public_key)
        \o Slot_to_bytes(value.slot)
        \o VarInt(value.index)
        \o Hash_to_bytes(value.hash_1)
        \o Hash_to_bytes(value.hash_2)
        \o Signature_to_bytes(value.signature_1)
        \o Signature_to_bytes(value.signature_2)

EndorsementDenunciationSerializer_serialize(value, buf) ==
    buf \o PublicKey_to_bytes(value.public_key)
        \o Slot_to_bytes(value.slot)
        \o VarInt(value.index)
        \o Hash_to_bytes(value.hash_1)
        \o Hash_to_bytes(value.hash_2)
        \o Signature_to_bytes(value.signature_1)
        \o Signature_to_bytes(value.signature_2)

BlockHeaderDenunciationSerializer_serialize(value, buf) ==
    buf \o PublicKey_to_bytes(value.public_key)
        \o Slot_to_bytes(value.slot)
        \o Hash_to_bytes(value.hash_1)
        \o Hash_to_bytes(value.hash_2)
        \o Signature_to_bytes(value.signature_1)
        \o Signature_to_bytes(value.signature_2)

\* A deserializer is built from its two parameters.
Deserializer_new(kind, thread_count, endorsement_count) ==
    [kind |-> kind, thread_count |-> thread_count, endorsement_count |-> endorsement_count]

\* The field parsers of the two bodies, in the order of the tuple, each under its
\* context label.
EndorsementDenunciation_fields ==
    << [context |-> "Failed public key deserialization", parser |-> "pubkey"],
       [context |-> "Failed slot deserialization", parser |-> "slot"],
       [context |-> "Failed slot deserialization", parser |-> "index"],
       [context |-> "Failed hash 1 deserialization", parser |-> "hash"],
       [context |-> "Failed hash 2 deserialization", parser |-> "hash"],
       [context |-> "Failed signature 1 deserialization", parser |-> "signature"],
       [context |-> "Failed signature 2 deserialization", parser |-> "signature"] >>

BlockHeaderDenunciation_fields ==
    << [context |-> "Failed public key deserialization", parser |-> "pubkey"],
       [context |-> "Failed slot deserialization", parser |-> "slot"],
       [context |-> "Failed hash 1 deserialization", parser |-> "hash"],
       [context |-> "Failed hash 2 deserialization", parser |-> "hash"],
       [context |-> "Failed signature 1 deserialization", parser |-> "signature"],
       [context |-> "Failed signature 2 deserialization", parser |-> "signature"] >>

\* Mutant: the upper bounds are taken as included.
field_deserialize_bounds_included(parser, der, input) ==
    CASE parser = "pubkey" -> PublicKeyDeserializer_deserialize(input)
      [] parser = "slot" -> SlotDeserializer_deserialize(der.thread_count + 1, input)
      [] parser = "index" ->
            U32VarIntDeserializer_deserialize(0, der.endorsement_count + 1, input)
      [] parser = "hash" -> HashDeserializer_deserialize(input)
      [] parser = "signature" -> SignatureDeserializer_deserialize(input)

field_deserialize(parser, der, input) ==
    CASE parser = "pubkey" -> PublicKeyDeserializer_deserialize(input)
      [] parser = "slot" -> SlotDeserializer_deserialize(der.thread_count, input)
      [] parser = "index" ->
            U32VarIntDeserializer_deserialize(0, der.endorsement_count, input)
      [] parser = "hash" -> HashDeserializer_deserialize(input)
      [] parser = "signature" -> SignatureDeserializer_deserialize(input)

\* Mutant: the last field is optional; when its parser fails the value read before
\* it stands in for it.
RECURSIVE tuple_last_field_optional(_, _, _, _)
tuple_last_field_optional(fields, der, input, read) ==
    IF fields = << >> THEN ParseOk(input, read)
    ELSE LET f == Head(fields)
             r == context(f.context, field_deserialize(f.parser, der, input))
         IN  IF IsOk(r)
             THEN tuple_last_field_optional(Tail(fields), der, r.val.rem,
                                            Append(read, r.val.val))
             ELSE IF Len(fields) = 1 /\ read # << >>
             THEN ParseOk(input, Append(read, read[Len(read)]))
             ELSE r

\* nom's tuple: the parsers run in order, each on what the one before left; the
\* first failure is the result, and nothing read so far is returned with it.
RECURSIVE tuple(_, _, _, _)
tuple(fields, der, input, read) ==
    IF fields = << >> THEN ParseOk(input, read)
    ELSE LET f == Head(fields)
             r == context(f.context, field_deserialize(f.parser, der, input))
         IN  IF IsOk(r) THEN tuple(Tail(fields), der, r.val.rem, Append(read, r.val.val))
             ELSE r

\* Mutant: the two hashes are assigned to each other's field.
EndorsementDenunciation_map_hashes_exchanged(t) ==
    EndorsementDenunciation(t[1], t[2], t[3], t[5], t[4], t[6], t[7])

EndorsementDenunciation_map(t) ==
    EndorsementDenunciation(t[1], t[2], t[3], t[4], t[5], t[6], t[7])

BlockHeaderDenunciation_map(t) ==
    BlockHeaderDenunciation(t[1], t[2], t[3], t[4], t[5], t[6])
\* Mutant: the deserializer returns only what is_valid accepts.
EndorsementDenunciationDeserializer_deserialize_validating(der, buf) ==
    LET r == context("Failed Endorsement Denunciation deserialization",
                     tuple(EndorsementDenunciation_fields, der, buf, << >>))
    IN  IF ~IsOk(r) THEN r
        ELSE IF is_valid(EndorsementDenunciation_map(r.val.val)) # Ok(TRUE)
        THEN context("Failed Endorsement Denunciation deserialization", ParseError)
        ELSE ParseOk(r.val.rem, EndorsementDenunciation_map(r.val.val))


EndorsementDenunciationDeserializer_deserialize(der, buf) ==
    LET r == context("Failed Endorsement Denunciation deserialization",
                     tuple(EndorsementDenunciation_fields, der, buf, << >>))
    IN  IF IsOk(r) THEN ParseOk(r.val.rem, EndorsementDenunciation_map(r.val.val)) ELSE r

BlockHeaderDenunciationDeserializer_deserialize(der, buf) ==
    LET r == context("Failed BlockHeader Denunciation deserialization",
                     tuple(BlockHeaderDenunciation_fields, der, buf, << >>))
    IN  IF IsOk(r) THEN ParseOk(r.val.rem, BlockHeaderDenunciation_map(r.val.val)) ELSE r

\* Mutant: the two discriminants exchanged.
DenunciationTypeId_exchanged == [Endorsement |-> 1, BlockHeader |-> 0]

\* enum DenunciationTypeId, #[repr(u32)].
DenunciationTypeId == [Endorsement |-> 0, BlockHeader |-> 1]

DenunciationTypeId_from(value) ==
    IF value.variant = "Endorsement" THEN "Endorsement" ELSE "BlockHeader"

DenunciationTypeId_try_from(id) ==
    IF \E v \in DOMAIN DenunciationTypeId : DenunciationTypeId[v] = id
    THEN Ok(CHOOSE v \in DOMAIN DenunciationTypeId : DenunciationTypeId[v] = id)
    ELSE Err("TryFromPrimitive")

DENUNCIATION_TYPE_ID_VARIANT_COUNT == Cardinality(DOMAIN DenunciationTypeId)

DenunciationSerializer_serialize(value, buf) ==
    LET de_type_id == DenunciationTypeId_from(value)
        with_id == buf \o VarInt(DenunciationTypeId[de_type_id])
    IN  IF value.variant = "Endorsement"
        THEN EndorsementDenunciationSerializer_serialize(value, with_id)
        ELSE BlockHeaderDenunciationSerializer_serialize(value, with_id)

\* Mutant: the type id is decoded without an upper bound.
type_id_deserializer_unbounded(input) == VarInt_decode(input)

type_id_deserializer(input) ==
    U32VarIntDeserializer_deserialize(0, DENUNCIATION_TYPE_ID_VARIANT_COUNT, input)

\* Mutant: a denunciation followed by more bytes is rejected.
DenunciationDeserializer_deserialize_all_consuming(der, buf) ==
    LET r == context("Failed Denunciation type id deserialization",
                     type_id_deserializer(buf))
    IN  IF ~IsOk(r) THEN r
        ELSE LET de_type_id == DenunciationTypeId_try_from(r.val.val)
                 body == IF ~IsOk(de_type_id) THEN ParseError
                         ELSE IF de_type_id.val = "Endorsement"
                         THEN EndorsementDenunciationDeserializer_deserialize(der, r.val.rem)
                         ELSE BlockHeaderDenunciationDeserializer_deserialize(der, r.val.rem)
             IN  IF IsOk(body) /\ body.val.rem # << >> THEN ParseError ELSE body

DenunciationDeserializer_deserialize(der, buf) ==
    LET r == context("Failed Denunciation type id deserialization",
                     type_id_deserializer(buf))
    IN  IF ~IsOk(r) THEN r
        ELSE LET de_type_id == DenunciationTypeId_try_from(r.val.val)
             IN  IF ~IsOk(de_type_id) THEN ParseError
                 ELSE IF de_type_id.val = "Endorsement"
                 THEN EndorsementDenunciationDeserializer_deserialize(der, r.val.rem)
                 ELSE BlockHeaderDenunciationDeserializer_deserialize(der, r.val.rem)

(***************************************************************************)
(* The codec at work (test_denunciation_ser_der and its two per-variant    *)
(* siblings): a denunciation is built from two honestly signed objects,    *)
(* serialized with the tagged or with its variant's serializer, and the    *)
(* bytes, as they are or as a peer may deliver them (cut short, with one   *)
(* byte changed, or followed by more bytes), are given to the matching     *)
(* deserializer.                                                           *)
(***************************************************************************)
serialize(ser, value, buf) ==
    CASE ser = "Denunciation" -> DenunciationSerializer_serialize(value, buf)
      [] ser = "Endorsement" -> EndorsementDenunciationSerializer_serialize(value, buf)
      [] ser = "BlockHeader" -> BlockHeaderDenunciationSerializer_serialize(value, buf)

deserialize(der, buf) ==
    CASE der.kind = "Denunciation" -> DenunciationDeserializer_deserialize(der, buf)
      [] der.kind = "Endorsement" -> EndorsementDenunciationDeserializer_deserialize(der, buf)
      [] der.kind = "BlockHeader" -> BlockHeaderDenunciationDeserializer_deserialize(der, buf)

\* The parameters the deserializers are built with: those of the tests' size, and
\* one of each at the value an input carries.
ThreadCounts == {7, 32}
EndorsementCounts == {9, 16}

\* The values a changed byte takes: around the bounds above and the discriminant's.
\* None is 0, which as the last group of a longer varint is not a minimal encoding,
\* and none has the continuation bit, which would move the field boundaries.
ChangedBytes == {2, 3, 6, 7, 8, 9, 15, 16, 31, 32}

TrailingBytes == { <<U8(0)>>, <<U8(200), U8(1)>>, PublicKey_to_bytes(1) }

DenunciationFromEndorsements ==
    /\ origin = "none"
    /\ \E pk \in Keys, s \in Slots, i \in Indexes, b1 \in GoodBodies, b2 \in GoodBodies :
         /\ s_1' = Endorsement_new_verifiable(Endorsement(s, i, b1), pk, 0)
         /\ s_2' = Endorsement_new_verifiable(Endorsement(s, i, b2), pk, 0)
    /\ res' = try_from_endorsements(s_1', s_2')
    /\ de' = IF IsOk(res') THEN Some(res'.val) ELSE None
    /\ origin' = "endorsements"
    /\ UNCHANGED <<valid, also_vars, codec_vars>>

DenunciationFromBlockHeaders ==
    /\ origin = "none"
    /\ \E pk \in Keys, s \in Slots, b1 \in GoodBodies, b2 \in GoodBodies :
         /\ s_1' = BlockHeader_new_verifiable(BlockHeader(s, b1), pk, 0)
         /\ s_2' = BlockHeader_new_verifiable(BlockHeader(s, b2), pk, 0)
    /\ res' = try_from_block_headers(s_1', s_2')
    /\ de' = IF IsOk(res') THEN Some(res'.val) ELSE None
    /\ origin' = "block_headers"
    /\ UNCHANGED <<valid, also_vars, codec_vars>>
\* A denunciation as a peer may send it: assembled by hand for the key and index
\* of First, its two hashes equal or not, each signature the key's over the
\* digest of its hash at the denunciation's slot or at another slot.
WireSigs(variant, slot, index, hash) ==
    { Sign(First.key,
           IF variant = "Endorsement"
           THEN signing_digest(preimage_endorsement(First.key, s, index, hash))
           ELSE signing_digest(preimage_block_header(First.key, s, hash)), 0) : s \in Slots }

DenunciationFromWire ==
    /\ origin = "none"
    /\ \E s \in Slots :
         \/ \E h1 \in EndoHashes(s, First.index), h2 \in EndoHashes(s, First.index) :
            \E sg1 \in WireSigs("Endorsement", s, First.index, h1),
               sg2 \in WireSigs("Endorsement", s, First.index, h2) :
              de' = Some(EndorsementDenunciation(First.key, s, First.index, h1, h2, sg1, sg2))
         \/ \E h1 \in BlockHeaderHashes(s), h2 \in BlockHeaderHashes(s) :
            \E sg1 \in WireSigs("BlockHeader", s, 0, h1),
               sg2 \in WireSigs("BlockHeader", s, 0, h2) :
              de' = Some(BlockHeaderDenunciation(First.key, s, h1, h2, sg1, sg2))
    /\ origin' = "forged"
    /\ UNCHANGED <<s_1, s_2, res, valid, also_vars, codec_vars>>


\* What the caller's buffer may hold before serialize is called on it.
PriorContents == { <<U8(1)>>, <<U8(0), U8(200)>> }

\* The caller's buffer is a fresh Vec (no bytes) unless it was used before.
FillBuffer ==
    /\ de.tag = "Some"
    /\ de_ser.tag = "None"
    /\ buffer.tag = "None"
    /\ \E prior \in PriorContents : buffer' = Some(prior)
    /\ UNCHANGED <<origin, s_1, s_2, res, de, valid, also_vars, de_ser, de_der, der_res>>

BufferContents == IF buffer.tag = "Some" THEN buffer.val ELSE << >>

Serialize ==
    /\ de.tag = "Some"
    /\ de_ser.tag = "None"
    /\ \E ser \in {"Denunciation", de.val.variant} :
         /\ de_ser' = Some(ser)
         /\ buffer' = Some(serialize(ser, de.val, BufferContents))
    /\ UNCHANGED <<origin, s_1, s_2, res, de, valid, also_vars, de_der, der_res>>

\* The bytes at hand are still those the serializer wrote into a fresh buffer.
Intact ==
    /\ de_ser.tag = "Some"
    /\ buffer.tag = "Some"
    /\ der_res.tag = "None"
    /\ buffer.val = serialize(de_ser.val, de.val, << >>)

Truncate ==
    /\ Intact
    /\ \E n \in 0..(Len(buffer.val) - 1) : buffer' = Some(SubSeq(buffer.val, 1, n))
    /\ UNCHANGED <<origin, s_1, s_2, res, de, valid, also_vars, de_ser, de_der, der_res>>

\* One byte of a varint's last group or of the thread takes another value.  The
\* discriminant is not changed into the other variant's: a body read under the
\* other layout reads the bytes of one primitive as those of another, which the
\* symbolic bytes do not represent.
ChangeByte ==
    /\ Intact
    /\ \E i \in 1..Len(buffer.val), v \in ChangedBytes :
         /\ buffer.val[i][1] = "u8"
         /\ buffer.val[i][2] < 128
         /\ buffer.val[i][2] # v
         /\ (de_ser.val = "Denunciation" /\ i = 1) => v >= DENUNCIATION_TYPE_ID_VARIANT_COUNT
         /\ buffer' = Some([buffer.val EXCEPT ![i] = U8(v)])
    /\ UNCHANGED <<origin, s_1, s_2, res, de, valid, also_vars, de_ser, de_der, der_res>>

AppendTrailing ==
    /\ Intact
    /\ \E t \in TrailingBytes : buffer' = Some(buffer.val \o t)
    /\ UNCHANGED <<origin, s_1, s_2, res, de, valid, also_vars, de_ser, de_der, der_res>>

Deserialize ==
    /\ de_ser.tag = "Some"
    /\ buffer.tag = "Some"
    /\ der_res.tag = "None"
    /\ \E thread_count \in ThreadCounts, endorsement_count \in EndorsementCounts :
         de_der' = Some(Deserializer_new(de_ser.val, thread_count, endorsement_count))
    /\ der_res' = Some(deserialize(de_der'.val, buffer.val))
    /\ UNCHANGED <<origin, s_1, s_2, res, de, valid, also_vars, de_ser, buffer>>

NextCodec ==
    \/ DenunciationFromEndorsements
    \/ DenunciationFromBlockHeaders
    \/ DenunciationFromWire
    \/ FillBuffer
    \/ Serialize
    \/ Truncate
    \/ ChangeByte
    \/ AppendTrailing
    \/ Deserialize

SpecCodec == Init /\ [][NextCodec]_vars

(***************************************************************************)
(* Coverage at work (test_endorsement_denunciation_is_for): a denunciation *)
(* is built from two honestly signed objects, and a third object, any a    *)
(* peer can send, is put to is_also_for_endorsement or                     *)
(* is_also_for_block_header.  The third object has one content more to     *)
(* choose from than the two the denunciation was built from.               *)
(***************************************************************************)
ThirdBodies == 0..(NumBodies + 1)

\* The third objects of a key and content: the id is the honest one (is_also_for
\* does not read it), the signature is over a tuple that differs from the
\* object's own in at most one place.
ThirdEndorsements(pk, c) ==
    { SecureShare(c, sg, pk,
                  signing_digest(preimage_endorsement(pk, c.slot, c.index, EndoRefHash(c)))) :
        sg \in EndoSigsNear(pk, c.slot, c.index, EndoRefHash(c),
                            EndoHashes(c.slot, c.index) \cup {EndoRefHash(c)}, Nonces) }

ThirdBlockHeaders(pk, c) ==
    { SecureShare(c, sg, pk,
                  signing_digest(preimage_block_header(pk, c.slot, BlockHeaderRefHash(c)))) :
        sg \in BlockHeaderSigsNear(pk, c.slot, BlockHeaderRefHash(c),
                                   BlockHeaderHashes(c.slot) \cup {BlockHeaderRefHash(c)},
                                   Nonces) }
\* Mutant: the call keeps the signature of the object it was asked about.
IsAlsoForEndorsement_keeps_third ==
    /\ de.tag = "Some"
    /\ also.tag = "None"
    /\ \E pk \in Keys, s \in Slots, i \in Indexes, b \in ThirdBodies :
       \E s_endorsement \in ThirdEndorsements(pk, Endorsement(s, i, b)) :
         /\ s_3' = s_endorsement
         /\ also' = Some(is_also_for_endorsement(de.val, s_endorsement))
         /\ de' = Some([de.val EXCEPT !.signature_2 = s_endorsement.signature])
    /\ UNCHANGED <<origin, s_1, s_2, res, valid, codec_vars>>


IsAlsoForEndorsement ==
    /\ de.tag = "Some"
    /\ also.tag = "None"
    /\ \E pk \in Keys, s \in Slots, i \in Indexes, b \in ThirdBodies :
       \E s_endorsement \in ThirdEndorsements(pk, Endorsement(s, i, b)) :
         /\ s_3' = s_endorsement
         /\ also' = Some(is_also_for_endorsement(de.val, s_endorsement))
    /\ UNCHANGED <<origin, s_1, s_2, res, de, valid, codec_vars>>

IsAlsoForBlockHeader ==
    /\ de.tag = "Some"
    /\ also.tag = "None"
    /\ \E pk \in Keys, s \in Slots, b \in ThirdBodies :
       \E s_block_header \in ThirdBlockHeaders(pk, BlockHeader(s, b)) :
         /\ s_3' = s_block_header
         /\ also' = Some(is_also_for_block_header(de.val, s_block_header))
    /\ UNCHANGED <<origin, s_1, s_2, res, de, valid, codec_vars>>
\* is_valid called once more, after the calls before it.
IsValidAgain ==
    /\ de.tag = "Some"
    /\ valid.tag # "None"
    /\ valid' = is_valid(de.val)
    /\ UNCHANGED <<origin, s_1, s_2, res, de, also_vars, codec_vars>>

\* An evidence object under the id of another: the fields of a SecureShare are
\* public and neither the constructors nor is_also_for_* derive the id from the
\* content.
WithId(e, id) == SecureShare(e.content, e.signature, e.content_creator_pub_key, id)

\* The first object carries the id of another content of its key and position
\* (the key and position of First).
DenunciationFromRelabelledEndorsements ==
    /\ origin = "none"
    /\ \E b1 \in GoodBodies, b2 \in GoodBodies : \E b \in (ThirdBodies \ {0, b1}) :
       LET s_endorsement(body) ==
               Endorsement_new_verifiable(Endorsement(First.slot, First.index, body),
                                          First.key, 0)
       IN  /\ s_1' = WithId(s_endorsement(b1), s_endorsement(b).id)
           /\ s_2' = s_endorsement(b2)
    /\ res' = try_from_endorsements(s_1', s_2')
    /\ de' = IF IsOk(res') THEN Some(res'.val) ELSE None
    /\ origin' = "endorsements"
    /\ UNCHANGED <<valid, also_vars, codec_vars>>

DenunciationFromRelabelledBlockHeaders ==
    /\ origin = "none"
    /\ \E b1 \in GoodBodies, b2 \in GoodBodies : \E b \in (ThirdBodies \ {0, b1}) :
       LET s_block_header(body) ==
               BlockHeader_new_verifiable(BlockHeader(First.slot, body), First.key, 0)
       IN  /\ s_1' = WithId(s_block_header(b1), s_block_header(b).id)
           /\ s_2' = s_block_header(b2)
    /\ res' = try_from_block_headers(s_1', s_2')
    /\ de' = IF IsOk(res') THEN Some(res'.val) ELSE None
    /\ origin' = "block_headers"
    /\ UNCHANGED <<valid, also_vars, codec_vars>>


NextAlso ==
    \/ DenunciationFromEndorsements
    \/ DenunciationFromBlockHeaders
    \/ DenunciationFromRelabelledEndorsements
    \/ DenunciationFromRelabelledBlockHeaders
    \/ IsAlsoForEndorsement
    \/ IsAlsoForBlockHeader
    \/ IsValid
    \/ IsValidAgain

SpecAlso == Init /\ [][NextAlso]_vars
(***************************************************************************)
(* Failing constructions: two objects at one slot and index, with two      *)
(* contents the fragment serializer rejects among the contents, so that    *)
(* every stage of try_from can fail on either object.                      *)
(***************************************************************************)
RejectedBodies == (0 - 1)..0

TryFromFailingEndorsements ==
    /\ origin = "none"
    /\ \E b1 \in RejectedBodies \cup GoodBodies, pk \in Keys, b2 \in RejectedBodies \cup GoodBodies :
       \E s_e1 \in EndoEvidenceFor(First.key, Endorsement(First.slot, First.index, b1), {0}),
          s_e2 \in EndoEvidenceFor(pk, Endorsement(First.slot, First.index, b2), {0}) :
         /\ s_1' = s_e1
         /\ s_2' = s_e2
         /\ res' = try_from_endorsements(s_e1, s_e2)
    /\ de' = IF IsOk(res') THEN Some(res'.val) ELSE None
    /\ origin' = "endorsements"
    /\ UNCHANGED <<valid, also_vars, codec_vars>>

TryFromFailingBlockHeaders ==
    /\ origin = "none"
    /\ \E b1 \in RejectedBodies \cup GoodBodies, pk \in Keys, b2 \in RejectedBodies \cup GoodBodies :
       \E s_bh1 \in BlockHeaderEvidenceFor(First.key, BlockHeader(First.slot, b1), {0}),
          s_bh2 \in BlockHeaderEvidenceFor(pk, BlockHeader(First.slot, b2), {0}) :
         /\ s_1' = s_bh1
         /\ s_2' = s_bh2
         /\ res' = try_from_block_headers(s_bh1, s_bh2)
    /\ de' = IF IsOk(res') THEN Some(res'.val) ELSE None
    /\ origin' = "block_headers"
    /\ UNCHANGED <<valid, also_vars, codec_vars>>

NextErr ==
    \/ TryFromFailingEndorsements
    \/ TryFromFailingBlockHeaders

SpecErr == Init /\ [][NextErr]_vars

(***************************************************************************)
(* Hand-assembled denunciations of one variant from signed objects of the  *)
(* other: the key, the slot and the two content hashes are those of the    *)
(* signed objects, and each signature is the key's over the endorsement    *)
(* digest (at some index) or over the block header digest of its hash.     *)
(***************************************************************************)
CrossIndexes == Indexes \cup {2, 128}

CrossSigs(pk, slot, hash) ==
    { Sign(pk, signing_digest(preimage_endorsement(pk, slot, i, hash)), 0) : i \in CrossIndexes }
        \cup { Sign(pk, signing_digest(preimage_block_header(pk, slot, hash)), 0) }

CrossHashes(slot) == BlockHeaderHashes(slot) \cup EndoHashes(slot, First.index)

ForgeEndorsementDenunciationAcross ==
    /\ origin = "none"
    /\ \E pk \in Keys, s \in Slots, i \in Indexes :
       \E h1 \in CrossHashes(s), h2 \in CrossHashes(s) :
       \E sg1 \in CrossSigs(pk, s, h1), sg2 \in CrossSigs(pk, s, h2) :
         de' = Some(EndorsementDenunciation(pk, s, i, h1, h2, sg1, sg2))
    /\ origin' = "forged"
    /\ UNCHANGED <<s_1, s_2, res, valid, also_vars, codec_vars>>

ForgeBlockHeaderDenunciationAcross ==
    /\ origin = "none"
    /\ \E pk \in Keys, s \in Slots :
       \E h1 \in CrossHashes(s), h2 \in CrossHashes(s) :
       \E sg1 \in CrossSigs(pk, s, h1), sg2 \in CrossSigs(pk, s, h2) :
         de' = Some(BlockHeaderDenunciation(pk, s, h1, h2, sg1, sg2))
    /\ origin' = "forged"
    /\ UNCHANGED <<s_1, s_2, res, valid, also_vars, codec_vars>>

NextAcross ==
    \/ ForgeEndorsementDenunciationAcross
    \/ ForgeBlockHeaderDenunciationAcross
    \/ IsValid

SpecAcross == Init /\ [][NextAcross]_vars


(***************************************************************************)
(* Vocabulary of the properties.                                           *)
(***************************************************************************)
Constructed == origin \in {"endorsements", "block_headers"}
Checked == valid.tag # "None"
ValidIs(b) == valid.tag = "Ok" /\ valid.val = b
ResIsErr(e) == res.tag = "Err" /\ res.val.kind = e

Serializes(e) ==
    IF origin = "endorsements" THEN e.content.endorsed_block > 0 ELSE e.content.parents > 0

\* The digest the author of evidence e signs.
OwnDigest(e) ==
    IF origin = "endorsements"
    THEN signing_digest(preimage_endorsement(e.content_creator_pub_key, e.content.slot,
                            e.content.index, content_hash_endorsement(e.content)))
    ELSE signing_digest(preimage_block_header(e.content_creator_pub_key, e.content.slot,
                            content_hash_block_header(e.content)))

OwnSignatureVerifies(e) ==
    IsOk(verify_signature(e.content_creator_pub_key, OwnDigest(e), e.signature))

HonestlySigned(e) ==
    /\ Serializes(e)
    /\ \E n \in Nonces :
         e = IF origin = "endorsements"
             THEN Endorsement_new_verifiable(e.content, e.content_creator_pub_key, n)
             ELSE BlockHeader_new_verifiable(e.content, e.content_creator_pub_key, n)

SamePosition ==
    /\ s_1.content.slot = s_2.content.slot
    /\ origin = "endorsements" => s_1.content.index = s_2.content.index

\* The signing digest of the tuple a denunciation stores with hash h.
StoredDigest(d, h) ==
    IF d.variant = "Endorsement"
    THEN signing_digest(preimage_endorsement(d.public_key, d.slot, d.index, h))
    ELSE signing_digest(preimage_block_header(d.public_key, d.slot, h))

StoredSignatureVerifies(d, h, sg) == IsOk(verify_signature(d.public_key, StoredDigest(d, h), sg))

FourConditions(d) ==
    /\ d.hash_1 # d.hash_2
    /\ d.signature_1 # d.signature_2
    /\ StoredSignatureVerifies(d, d.hash_1, d.signature_1)
    /\ StoredSignatureVerifies(d, d.hash_2, d.signature_2)

HonestPair ==
    /\ Constructed
    /\ HonestlySigned(s_1)
    /\ HonestlySigned(s_2)
    /\ s_1.content_creator_pub_key = s_2.content_creator_pub_key
    /\ SamePosition
    /\ s_1.content # s_2.content

(***************************************************************************)
(* C1: two evidence objects with distinct contents at the same position,   *)
(* both honestly signed by one key, give Ok(d) from try_from, and          *)
(* d.is_valid() is Ok(true).                                               *)
(***************************************************************************)
C1_HonestPairGivesValidDenunciation ==
    HonestPair => /\ IsOk(res)
                  /\ Checked => ValidIs(TRUE)

C1_Witness == HonestPair /\ origin = "endorsements" /\ IsOk(res) /\ ValidIs(TRUE)

(***************************************************************************)
(* C2: is_valid returns true exactly when the two stored hashes differ,    *)
(* the two signatures differ, and each signature verifies under the public *)
(* key against the signing digest of the stored tuple with its hash; in    *)
(* every other case it returns false.                                      *)
(***************************************************************************)
C2_IsValidIffFourConditions ==
    Checked => IF FourConditions(de.val) THEN ValidIs(TRUE) ELSE ValidIs(FALSE)

C2_Witness ==
    /\ Checked
    /\ origin = "forged"
    /\ de.val.variant = "BlockHeader"
    /\ FourConditions(de.val)
    /\ ValidIs(TRUE)

\* Every tuple an author can sign, with the digest the author signs for it.
SignedEndorsementTuples ==
    { <<t, signing_digest(preimage_endorsement(t[1], t[2], t[3], t[4]))>> :
        t \in Keys \X Slots \X Indexes \X UNION { EndoHashPool(i) : i \in Indexes } }
SignedBlockHeaderTuples ==
    { <<t, signing_digest(preimage_block_header(t[1], t[2], t[3]))>> :
        t \in Keys \X Slots \X BlockHeaderHashPool }

\* sg was produced over the preimage of a tuple other than d's own with hash h.
SignedOverOtherTuple(d, h, sg) ==
    IF d.variant = "Endorsement"
    THEN \E p \in SignedEndorsementTuples :
           p[2] = sg.digest /\ p[1] # <<d.public_key, d.slot, d.index, h>>
    ELSE \E p \in SignedBlockHeaderTuples :
           p[2] = sg.digest /\ p[1] # <<d.public_key, d.slot, h>>

\* sg was produced by d's key over d's own tuple with hash h, but for another slot.
SignedForOtherSlot(d, h, sg) ==
    /\ d.variant = "Endorsement"
    /\ sg.signer = d.public_key
    /\ \E s \in Slots \ {d.slot} :
         sg.digest = signing_digest(preimage_endorsement(d.public_key, s, d.index, h))

(***************************************************************************)
(* C3: a hand-assembled denunciation with a stored signature that was      *)
(* produced over a preimage whose (public key, slot, index, content hash)  *)
(* is not the denunciation's own stored tuple gets false from is_valid; in *)
(* particular a signature made for another slot does.                      *)
(***************************************************************************)
C3_ForgedSignatureIsInvalid ==
    (/\ origin = "forged"
     /\ Checked
     /\ \/ SignedOverOtherTuple(de.val, de.val.hash_1, de.val.signature_1)
        \/ SignedOverOtherTuple(de.val, de.val.hash_2, de.val.signature_2))
    => ValidIs(FALSE)

C3_Witness ==
    /\ origin = "forged"
    /\ SignedForOtherSlot(de.val, de.val.hash_1, de.val.signature_1)
    /\ de.val.hash_1 # de.val.hash_2
    /\ StoredSignatureVerifies(de.val, de.val.hash_2, de.val.signature_2)
    /\ ValidIs(FALSE)

(***************************************************************************)
(* C4: a denunciation whose hash_1 equals hash_2 gets false from is_valid, *)
(* even when both signatures are genuine signatures by its public key for  *)
(* its slot and index.                                                     *)
(***************************************************************************)
C4_EqualHashesAreInvalid ==
    (Checked /\ de.val.hash_1 = de.val.hash_2) => ValidIs(FALSE)

C4_Witness ==
    /\ de.tag = "Some"
    /\ de.val.hash_1 = de.val.hash_2
    /\ de.val.signature_1 # de.val.signature_2
    /\ StoredSignatureVerifies(de.val, de.val.hash_1, de.val.signature_1)
    /\ StoredSignatureVerifies(de.val, de.val.hash_2, de.val.signature_2)
    /\ ValidIs(FALSE)

(***************************************************************************)
(* C5: every denunciation either constructor returns as Ok, for any input  *)
(* pair (the id of an evidence object need not be consistent with its      *)
(* content), has hash_1 # hash_2, signature_1 # signature_2 and two        *)
(* verifying signatures, so is_valid returns true on it.                   *)
(***************************************************************************)
C5_ConstructedIsValid ==
    (Constructed /\ IsOk(res)) => /\ FourConditions(res.val)
                                  /\ Checked => ValidIs(TRUE)

PreconditionFails ==
    \/ s_1.id = s_2.id
    \/ s_1.content.slot # s_2.content.slot
    \/ origin = "endorsements" /\ s_1.content.index # s_2.content.index
    \/ s_1.content_creator_pub_key # s_2.content_creator_pub_key

(***************************************************************************)
(* C6: try_from returns Err(InvalidInput) exactly when a precondition      *)
(* fails: the two ids are equal (the same object passed twice included),   *)
(* the slots differ, the indexes differ (endorsements), or the author      *)
(* public keys differ.                                                     *)
(***************************************************************************)
C6_InvalidInputIffPreconditionFails ==
    Constructed => (PreconditionFails <=> ResIsErr(InvalidInput))

C6_Witness == Constructed /\ s_1 = s_2 /\ ResIsErr(InvalidInput)

SignatureIsBad(e) == Serializes(e) /\ ~OwnSignatureVerifies(e)

(***************************************************************************)
(* C7: the InvalidInput checks come before any hashing or verification: a  *)
(* pair that violates a precondition gets InvalidInput even when a content *)
(* does not serialize or a signature is invalid, never Serialization or    *)
(* Signature.                                                              *)
(***************************************************************************)
C7_InvalidInputBeforeCryptographicWork ==
    (/\ Constructed
     /\ PreconditionFails
     /\ \/ ~Serializes(s_1)
        \/ ~Serializes(s_2)
        \/ SignatureIsBad(s_1)
        \/ SignatureIsBad(s_2))
    => /\ ResIsErr(InvalidInput)
       /\ ~ResIsErr(SerializationError)
       /\ ~ResIsErr(SignatureError)

C7_Witness ==
    /\ origin = "endorsements"
    /\ PreconditionFails
    /\ ~Serializes(s_1)
    /\ SignatureIsBad(s_2)
    /\ ResIsErr(InvalidInput)

(***************************************************************************)
(* C8: for a pair that passes the InvalidInput checks and whose contents   *)
(* serialize, if the signature of either object does not verify under the  *)
(* author's key against the object's own signing digest, try_from returns  *)
(* Err(Signature) and there is no denunciation.                            *)
(***************************************************************************)
C8_BadSignatureGivesSignatureError ==
    (/\ Constructed
     /\ ~PreconditionFails
     /\ Serializes(s_1)
     /\ Serializes(s_2)
     /\ ~OwnSignatureVerifies(s_1) \/ ~OwnSignatureVerifies(s_2))
    => /\ ResIsErr(SignatureError)
       /\ de.tag = "None"

C8_Witness ==
    /\ origin = "endorsements"
    /\ ~PreconditionFails
    /\ Serializes(s_1)
    /\ Serializes(s_2)
    /\ OwnSignatureVerifies(s_1)
    /\ ~OwnSignatureVerifies(s_2)
    /\ ResIsErr(SignatureError)

(***************************************************************************)
(* C9: is_valid never returns an error: on every denunciation it returns   *)
(* Ok, and a signature that fails to verify gives Ok(false).               *)
(***************************************************************************)
C9_IsValidNeverErrs ==
    Checked => /\ valid.tag = "Ok"
               /\ (\/ ~StoredSignatureVerifies(de.val, de.val.hash_1, de.val.signature_1)
                   \/ ~StoredSignatureVerifies(de.val, de.val.hash_2, de.val.signature_2))
                  => valid.val = FALSE

C9_Witness ==
    /\ Checked
    /\ de.val.hash_1 # de.val.hash_2
    /\ de.val.signature_1 # de.val.signature_2
    /\ StoredSignatureVerifies(de.val, de.val.hash_1, de.val.signature_1)
    /\ ~StoredSignatureVerifies(de.val, de.val.hash_2, de.val.signature_2)
    /\ ValidIs(FALSE)

ContentHash(e) ==
    IF origin = "endorsements" THEN content_hash_endorsement(e.content)
    ELSE content_hash_block_header(e.content)

(***************************************************************************)
(* C10: a successful try_from((a, b)) has the public key, slot (and index) *)
(* of a, hash_1 and hash_2 the content hashes of a and of b, signature_1   *)
(* and signature_2 the signatures of a and of b; two endorsements give the *)
(* Endorsement variant and two block headers the BlockHeader variant.      *)
(***************************************************************************)
C10_FieldsComeFromTheEvidence ==
    (Constructed /\ IsOk(res)) =>
        /\ res.val.public_key = s_1.content_creator_pub_key
        /\ res.val.slot = s_1.content.slot
        /\ res.val.hash_1 = ContentHash(s_1)
        /\ res.val.hash_2 = ContentHash(s_2)
        /\ res.val.signature_1 = s_1.signature
        /\ res.val.signature_2 = s_2.signature
        /\ origin = "endorsements" => /\ res.val.variant = "Endorsement"
                                      /\ res.val.index = s_1.content.index
        /\ origin = "block_headers" => /\ res.val.variant = "BlockHeader"
                                       /\ DOMAIN res.val = DOMAIN BlockHeaderDenunciation(0, 0, 0, 0, 0, 0)

C10_Witness ==
    /\ origin = "block_headers"
    /\ IsOk(res)
    /\ s_1.signature # s_2.signature
    /\ res.val.signature_2 = s_2.signature

(***************************************************************************)
(* Vocabulary of the codec properties.                                     *)
(***************************************************************************)
Decoded == der_res.tag = "Some"
DecodeOk == Decoded /\ IsOk(der_res.val)
DecodeErr == Decoded /\ ~IsOk(der_res.val)
DecodedValue == der_res.val.val.val
DecodedRem == der_res.val.val.rem
DecodeContexts == der_res.val.val

Encoding == serialize(de_ser.val, de.val, << >>)
BufferIsEncoding == de_ser.tag = "Some" /\ buffer.tag = "Some" /\ buffer.val = Encoding

\* The denunciation is within the bounds the deserializer was built with.
InRange(d, der) ==
    /\ d.slot.thread < der.thread_count
    /\ d.variant = "Endorsement" => d.index < der.endorsement_count

(***************************************************************************)
(* C11: every denunciation the constructors produce survives the round     *)
(* trip: the bytes its serializer writes are decoded by the matching       *)
(* deserializer, tagged or per variant, to an equal value with an empty    *)
(* remainder.                                                              *)
(***************************************************************************)
C11_ConstructedRoundTrips ==
    (Constructed /\ BufferIsEncoding /\ Decoded) =>
        (DecodeOk /\ DecodedValue = de.val /\ DecodedRem = << >>)

\* The denunciations whose encoding differs from that of d in the thread byte or
\* in the index byte at most.
Rewritten(d) ==
    { IF d.variant = "Endorsement"
      THEN [d EXCEPT !.slot.thread = t, !.index = i]
      ELSE [d EXCEPT !.slot.thread = t] :
        t \in ChangedBytes \cup {d.slot.thread},
        i \in ChangedBytes \cup (IF d.variant = "Endorsement" THEN {d.index} ELSE {}) }

\* The denunciation of that kind the bytes at hand are the encoding of, if any.
EncodedValues ==
    { x \in Rewritten(de.val) : buffer.val = serialize(de_ser.val, x, << >>) }

(***************************************************************************)
(* C12: a well-formed encoding is accepted exactly when its thread is      *)
(* below thread_count and, for the endorsement variant, its index is below *)
(* endorsement_count: a thread or an index at or above its bound makes the *)
(* deserialization fail, and values below are accepted and returned.       *)
(***************************************************************************)
C12_BoundsDecideAcceptance ==
    Decoded =>
        \A x \in EncodedValues :
            /\ DecodeOk <=> InRange(x, de_der.val)
            /\ DecodeOk => DecodedValue = x

C12_Witness ==
    /\ DecodeErr
    /\ ~BufferIsEncoding
    /\ \E x \in EncodedValues :
         /\ x.variant = "Endorsement"
         /\ x.slot.thread = de_der.val.thread_count - 1
         /\ x.index = de_der.val.endorsement_count

Tagged == de_der.tag = "Some" /\ de_der.val.kind = "Denunciation"
LeadingVarInt == VarInt_decode(buffer.val)

(***************************************************************************)
(* C13: the tagged deserializer rejects every buffer whose leading varint  *)
(* is 2 or more, and the error is the bounded type-id decoder's: it        *)
(* carries the type-id context and no context of a variant body, and no    *)
(* error of the tagged deserializer is the bare error of the conversion    *)
(* to DenunciationTypeId.                                                  *)
(***************************************************************************)
C13_UnknownDiscriminantFailsInTypeIdDecoder ==
    (Decoded /\ Tagged) =>
        /\ (IsOk(LeadingVarInt)
              /\ LeadingVarInt.val.val >= DENUNCIATION_TYPE_ID_VARIANT_COUNT) =>
                (DecodeErr
                 /\ DecodeContexts = <<"Failed Denunciation type id deserialization">>)
        /\ DecodeErr => DecodeContexts # << >>

C13_Witness ==
    /\ Decoded
    /\ Tagged
    /\ Len(buffer.val) = Len(Encoding)
    /\ buffer.val[1] = U8(DENUNCIATION_TYPE_ID_VARIANT_COUNT)
    /\ DecodeErr

TaggedSerializer == de_ser.tag = "Some" /\ de_ser.val = "Denunciation"

(***************************************************************************)
(* C14: the tagged serializer writes the varint 0 and then the             *)
(* endorsement body for the Endorsement variant, the varint 1 and then the *)
(* block-header body for the BlockHeader variant; the tagged deserializer  *)
(* reads what follows a 0 as an endorsement body and what follows a 1 as a *)
(* block-header body, and returns a denunciation of that variant.          *)
(***************************************************************************)
C14_DiscriminantMatchesVariant ==
    /\ (TaggedSerializer /\ BufferIsEncoding) =>
          buffer.val =
              IF de.val.variant = "Endorsement"
              THEN VarInt(0) \o EndorsementDenunciationSerializer_serialize(de.val, << >>)
              ELSE VarInt(1) \o BlockHeaderDenunciationSerializer_serialize(de.val, << >>)
    /\ (Decoded /\ Tagged /\ buffer.val # << >>) =>
          /\ buffer.val[1] = U8(0) =>
                /\ der_res.val =
                     EndorsementDenunciationDeserializer_deserialize(de_der.val,
                                                                     Tail(buffer.val))
                /\ DecodeOk => DecodedValue.variant = "Endorsement"
          /\ buffer.val[1] = U8(1) =>
                /\ der_res.val =
                     BlockHeaderDenunciationDeserializer_deserialize(de_der.val,
                                                                     Tail(buffer.val))
                /\ DecodeOk => DecodedValue.variant = "BlockHeader"

C14_Witness ==
    /\ Tagged
    /\ DecodeOk
    /\ BufferIsEncoding
    /\ buffer.val[1] = U8(1)
    /\ is_for_block_header(DecodedValue)

\* The body as the wire format lays it out, field by field.
EndorsementBodyLayout(d) ==
    PublicKey_to_bytes(d.public_key) \o Slot_to_bytes(d.slot) \o VarInt(d.index)
        \o Hash_to_bytes(d.hash_1) \o Hash_to_bytes(d.hash_2)
        \o Signature_to_bytes(d.signature_1) \o Signature_to_bytes(d.signature_2)

BlockHeaderBodyLayout(d) ==
    PublicKey_to_bytes(d.public_key) \o Slot_to_bytes(d.slot)
        \o Hash_to_bytes(d.hash_1) \o Hash_to_bytes(d.hash_2)
        \o Signature_to_bytes(d.signature_1) \o Signature_to_bytes(d.signature_2)

\* The bytes at hand after the discriminant, if the serializer wrote one.
Body == IF de_ser.val = "Denunciation" THEN Tail(buffer.val) ELSE buffer.val

SameFields(x, d) ==
    /\ x.variant = d.variant
    /\ x.public_key = d.public_key
    /\ x.slot = d.slot
    /\ d.variant = "Endorsement" => x.index = d.index
    /\ x.hash_1 = d.hash_1
    /\ x.hash_2 = d.hash_2
    /\ x.signature_1 = d.signature_1
    /\ x.signature_2 = d.signature_2

(***************************************************************************)
(* C15: the endorsement body is the public key, the slot, the varint       *)
(* index, hash_1, hash_2, signature_1 and signature_2 in that order, the   *)
(* block-header body the same without the index; the deserializer reads    *)
(* them in that order into the fields of the same names, so the encoding   *)
(* of a denunciation within the deserializer's bounds decodes to a value   *)
(* with the same fields and nothing left over.                             *)
(***************************************************************************)
C15_BodyLayoutAndFieldAssignment ==
    /\ BufferIsEncoding =>
          Body = IF de.val.variant = "Endorsement"
                 THEN EndorsementBodyLayout(de.val)
                 ELSE BlockHeaderBodyLayout(de.val)
    /\ (BufferIsEncoding /\ Decoded /\ InRange(de.val, de_der.val)) =>
          /\ DecodeOk
          /\ SameFields(DecodedValue, de.val)
          /\ DecodedRem = << >>

C15_Witness ==
    /\ BufferIsEncoding
    /\ DecodeOk
    /\ de_ser.val = "Endorsement"
    /\ DecodedValue.index = 9
    /\ DecodedValue.slot = Slot(300, 2)
    /\ DecodedValue.hash_1 # DecodedValue.hash_2
    /\ DecodedValue.signature_1 # DecodedValue.signature_2

(***************************************************************************)
(* Vocabulary of the coverage property.                                    *)
(***************************************************************************)
AlsoChecked == also.tag = "Some"
AlsoIs(b) == AlsoChecked /\ also.val.tag = "Ok" /\ also.val.val = b

ThirdIsEndorsement == "index" \in DOMAIN s_3.content
SameVariant ==
    de.val.variant = IF ThirdIsEndorsement THEN "Endorsement" ELSE "BlockHeader"

\* What the properties require of a covered object e, told from its fields and
\* from the digest its author would sign for the denunciation's key and position.
CoversEndorsement(d, e) ==
    /\ d.variant = "Endorsement"
    /\ e.content.endorsed_block > 0
    /\ d.slot = e.content.slot
    /\ d.index = e.content.index
    /\ d.public_key = e.content_creator_pub_key
    /\ content_hash_endorsement(e.content) # d.hash_1
    /\ content_hash_endorsement(e.content) # d.hash_2
    /\ IsOk(verify_signature(d.public_key,
              signing_digest(preimage_endorsement(d.public_key, d.slot, d.index,
                                 content_hash_endorsement(e.content))),
              e.signature))

CoversBlockHeader(d, e) ==
    /\ d.variant = "BlockHeader"
    /\ e.content.parents > 0
    /\ d.slot = e.content.slot
    /\ d.public_key = e.content_creator_pub_key
    /\ content_hash_block_header(e.content) # d.hash_1
    /\ content_hash_block_header(e.content) # d.hash_2
    /\ IsOk(verify_signature(d.public_key,
              signing_digest(preimage_block_header(d.public_key, d.slot,
                                 content_hash_block_header(e.content))),
              e.signature))

BuiltFromThird ==
    /\ origin = (IF ThirdIsEndorsement THEN "endorsements" ELSE "block_headers")
    /\ s_3 = s_1 \/ s_3 = s_2

(***************************************************************************)
(* C16: is_also_for_endorsement (is_also_for_block_header) is true exactly *)
(* when the denunciation is of the matching variant, the object has the    *)
(* denunciation's slot (and index) and public key, its content hash is     *)
(* neither hash_1 nor hash_2, and its signature verifies under the         *)
(* denunciation's public key against the signing digest of that key, slot  *)
(* (and index) and content hash; it is false for a denunciation of the     *)
(* other variant and for each of the two objects the denunciation was      *)
(* built from.                                                             *)
(***************************************************************************)
C16_IsAlsoForIffCovered ==
    AlsoChecked =>
        /\ AlsoIs(TRUE) <=> IF ThirdIsEndorsement THEN CoversEndorsement(de.val, s_3)
                            ELSE CoversBlockHeader(de.val, s_3)
        /\ ~SameVariant => AlsoIs(FALSE)
        /\ BuiltFromThird => AlsoIs(FALSE)

C16_Witness ==
    /\ AlsoIs(TRUE)
    /\ ThirdIsEndorsement
    /\ s_3.content.endorsed_block = NumBodies + 1
    /\ s_3 # s_1
    /\ s_3 # s_2

\* The payload of the Endorsement variant is the one with an index.
HasEndorsementPayload(d) == "index" \in DOMAIN d

(***************************************************************************)
(* C17: of is_for_endorsement and is_for_block_header exactly one is true  *)
(* of any denunciation, constructed or assembled by hand: the first of     *)
(* those of the Endorsement variant (built from endorsements, carrying an  *)
(* index), the second of those of the BlockHeader variant.                 *)
(***************************************************************************)
C17_ExactlyOneVariantPredicate ==
    de.tag = "Some" =>
        /\ is_for_endorsement(de.val) # is_for_block_header(de.val)
        /\ is_for_endorsement(de.val) <=> HasEndorsementPayload(de.val)
        /\ is_for_block_header(de.val) <=> ~HasEndorsementPayload(de.val)
        /\ origin = "endorsements" => is_for_endorsement(de.val)
        /\ origin = "block_headers" => is_for_block_header(de.val)

C17_Witness ==
    /\ origin = "block_headers"
    /\ de.tag = "Some"
    /\ is_for_block_header(de.val)
    /\ ~is_for_endorsement(de.val)

\* The body deserializer the error came out of, told by its outer context, the
\* field parsers of that body and the input the body was read from.
FailedInEndorsementBody ==
    DecodeErr /\ Len(DecodeContexts) = 2
        /\ DecodeContexts[2] = "Failed Endorsement Denunciation deserialization"
FailedInBlockHeaderBody ==
    DecodeErr /\ Len(DecodeContexts) = 2
        /\ DecodeContexts[2] = "Failed BlockHeader Denunciation deserialization"
FailedInBody == FailedInEndorsementBody \/ FailedInBlockHeaderBody

FieldsInUse ==
    IF FailedInEndorsementBody THEN EndorsementDenunciation_fields
    ELSE BlockHeaderDenunciation_fields
BodyInput == IF Tagged THEN LeadingVarInt.val.rem ELSE buffer.val

\* The position in the tuple of the first field parser that fails on the input
\* (n fields were read before it).
RECURSIVE FailedAt(_, _, _, _)
FailedAt(fields, der, input, n) ==
    LET r == field_deserialize(Head(fields).parser, der, input)
    IN  IF IsOk(r) THEN FailedAt(Tail(fields), der, r.val.rem, n + 1) ELSE n + 1

FailedField == FailedAt(FieldsInUse, de_der.val, BodyInput, 0)

(***************************************************************************)
(* C18: a decoding failure at a field of a body is reported under a        *)
(* context label that no other field of that body, and not the type id,    *)
(* is reported under, so the label tells the field that failed.            *)
(***************************************************************************)
C18_FailureContextIdentifiesField ==
    FailedInBody =>
        /\ DecodeContexts[1] = FieldsInUse[FailedField].context
        /\ DecodeContexts[1] # "Failed Denunciation type id deserialization"
        /\ \A j \in DOMAIN FieldsInUse :
              j # FailedField => FieldsInUse[j].context # DecodeContexts[1]

\* Every context label of the deserializers.
AllContexts ==
    { "Failed Denunciation type id deserialization",
      "Failed Endorsement Denunciation deserialization",
      "Failed BlockHeader Denunciation deserialization" }
        \cup { EndorsementDenunciation_fields[i].context :
                 i \in DOMAIN EndorsementDenunciation_fields }
        \cup { BlockHeaderDenunciation_fields[i].context :
                 i \in DOMAIN BlockHeaderDenunciation_fields }

BufferIsStrictPrefix ==
    /\ buffer.tag = "Some"
    /\ Len(buffer.val) < Len(Encoding)
    /\ buffer.val = SubSeq(Encoding, 1, Len(buffer.val))

(***************************************************************************)
(* C19: deserialization returns no partially decoded denunciation.  Every  *)
(* strict prefix of an encoding, cut at a field boundary or inside a       *)
(* field, fails to decode; an error carries context labels only; and a     *)
(* denunciation that is returned has all its fields read from the input:   *)
(* the input is the encoding of the returned value followed by the         *)
(* returned remainder.                                                     *)
(***************************************************************************)
C19_NoPartialDenunciation ==
    Decoded =>
        /\ BufferIsStrictPrefix => DecodeErr
        /\ DecodeErr => \A i \in DOMAIN DecodeContexts : DecodeContexts[i] \in AllContexts
        /\ DecodeOk =>
              buffer.val = serialize(de_der.val.kind, DecodedValue, << >>) \o DecodedRem

C19_Witness ==
    /\ Decoded
    /\ BufferIsStrictPrefix
    /\ Len(buffer.val) = Len(Encoding) - 1
    /\ DecodeErr
    /\ DecodeContexts[1] = "Failed signature 2 deserialization"

\* The bytes at hand are the encoding followed by Trailing (which may be empty).
BufferExtendsEncoding ==
    /\ buffer.tag = "Some"
    /\ Len(buffer.val) >= Len(Encoding)
    /\ SubSeq(buffer.val, 1, Len(Encoding)) = Encoding
Trailing == SubSeq(buffer.val, Len(Encoding) + 1, Len(buffer.val))

SerializeStep == de_ser.tag = "None" /\ de_ser'.tag = "Some"
DeserializeStep == der_res.tag = "None" /\ der_res'.tag = "Some"

(***************************************************************************)
(* C21: serialize appends to the caller's buffer: after the call the       *)
(* buffer is what it held before followed by exactly the encoding of the   *)
(* denunciation, and the denunciation is as it was; deserialize leaves the *)
(* bytes it reads, and the denunciation, as they were.                     *)
(***************************************************************************)
C21_SerializeAppendsToBuffer ==
    [][ /\ SerializeStep =>
              /\ buffer'.val = BufferContents \o serialize(de_ser'.val, de.val, << >>)
              /\ de' = de
        /\ DeserializeStep =>
              /\ buffer' = buffer
              /\ de' = de ]_vars

C21_Witness ==
    /\ de_ser.tag = "Some"
    /\ de_ser.val = "Denunciation"
    /\ der_res.tag = "None"
    /\ Len(buffer.val) = Len(Encoding) + 2
    /\ SubSeq(buffer.val, 1, 2) = <<U8(0), U8(200)>>
    /\ SubSeq(buffer.val, 3, Len(buffer.val)) = Encoding

\* The constructor called on the two objects as they are now.
TryFromAgain(o, a, b) ==
    IF o = "endorsements" THEN try_from_endorsements(a, b) ELSE try_from_block_headers(a, b)

\* is_also_for_* called on the denunciation and the third object as they are now.
IsAlsoForAgain(d, e) ==
    IF "index" \in DOMAIN e.content
    THEN is_also_for_endorsement(d, e)
    ELSE is_also_for_block_header(d, e)

DecodedWithinBounds == DecodeOk => InRange(DecodedValue, de_der.val)
ConstructedWithinBounds ==
    (Constructed /\ de.tag = "Some" /\ de_der.tag = "Some") => InRange(de.val, de_der.val)

(***************************************************************************)
(* C23: every denunciation obtained from the module, decoded or built by   *)
(* a constructor, has its thread below thread_count and, for endorsements, *)
(* its index below endorsement_count.                                      *)
(***************************************************************************)
C23_ObtainedWithinBounds == DecodedWithinBounds /\ ConstructedWithinBounds

\* The tuples the digests are compared over: every key, the slots and indexes in
\* use and others on both sides of the one-byte varint limit (a thread above it
\* too), and the content hashes of every content in use.
DigestSlots == Slots \cup { Slot(p, t) : p \in {3, 128, 300}, t \in {2, 7, 172} }
DigestIndexes == Indexes \cup {2, 128, 300}
EndoDigestHashes ==
    { content_hash_endorsement(Endorsement(s, i, b)) :
        s \in Slots, i \in Indexes, b \in ThirdBodies \ {0} }
BlockHeaderDigestHashes ==
    { content_hash_block_header(BlockHeader(s, b)) : s \in Slots, b \in ThirdBodies \ {0} }
EndoTuples == Keys \X DigestSlots \X DigestIndexes \X EndoDigestHashes
BlockHeaderTuples == Keys \X DigestSlots \X BlockHeaderDigestHashes

\* The digest the code computes for a tuple.
EndoDigestOf ==
    [ t \in EndoTuples |-> Endo_compute_hash_for_sig_verif(t[1], t[2], t[3], t[4]).val ]
BlockHeaderDigestOf ==
    [ t \in BlockHeaderTuples |-> BlockHeader_compute_hash_for_sig_verif(t[1], t[2], t[3]).val ]

\* H(public key bytes || slot || index || content hash bytes), without the index
\* for a block header; the slot is its period as a varint, then its thread.
EndoLayout(t) ==
    Hash_compute_from(PublicKey_to_bytes(t[1])
                      \o VarInt(t[2].period) \o <<U8(t[2].thread)>>
                      \o VarInt(t[3])
                      \o Hash_to_bytes(t[4]))
BlockHeaderLayout(t) ==
    Hash_compute_from(PublicKey_to_bytes(t[1])
                      \o VarInt(t[2].period) \o <<U8(t[2].thread)>>
                      \o Hash_to_bytes(t[3]))

\* The tuples construction, is_valid and is_also_for_* compute a digest for, each
\* with the signature verified against that digest and whether it was accepted:
\* those of the two evidence objects, of the denunciation's two hashes, and of
\* the third object under the denunciation's key and position.
ContentHashOf(e) ==
    IF "index" \in DOMAIN e.content
    THEN Endo_compute_content_hash(e.content).val
    ELSE BlockHeader_compute_content_hash(e.content).val

EvidenceTuple(e) ==
    IF "index" \in DOMAIN e.content
    THEN <<e.content_creator_pub_key, e.content.slot, e.content.index, ContentHashOf(e)>>
    ELSE <<e.content_creator_pub_key, e.content.slot, ContentHashOf(e)>>

StoredTuple(d, h) ==
    IF d.variant = "Endorsement"
    THEN <<d.public_key, d.slot, d.index, h>>
    ELSE <<d.public_key, d.slot, h>>

DigestUses ==
    (IF origin # "none"
     THEN { [tuple |-> EvidenceTuple(s_1), signature |-> s_1.signature, accepted |-> IsOk(res)],
            [tuple |-> EvidenceTuple(s_2), signature |-> s_2.signature, accepted |-> IsOk(res)] }
     ELSE {})
    \cup
    (IF Checked
     THEN { [tuple |-> StoredTuple(de.val, de.val.hash_1),
             signature |-> de.val.signature_1, accepted |-> ValidIs(TRUE)],
            [tuple |-> StoredTuple(de.val, de.val.hash_2),
             signature |-> de.val.signature_2, accepted |-> ValidIs(TRUE)] }
     ELSE {})
    \cup
    (IF AlsoIs(TRUE)
     THEN { [tuple |-> StoredTuple(de.val, ContentHashOf(s_3)),
             signature |-> s_3.signature, accepted |-> TRUE] }
     ELSE {})

DigestOf(t) == IF Len(t) = 4 THEN EndoDigestOf[t] ELSE BlockHeaderDigestOf[t]
LayoutOf(t) == IF Len(t) = 4 THEN EndoLayout(t) ELSE BlockHeaderLayout(t)

\* Over all the tuples: the digest is the hash of the layout, and no two tuples
\* share a digest.
DigestsFollowLayout ==
    /\ \A t \in EndoTuples : EndoDigestOf[t] = EndoLayout(t)
    /\ \A t \in BlockHeaderTuples : BlockHeaderDigestOf[t] = BlockHeaderLayout(t)
DigestsAreDistinct ==
    /\ Cardinality({ EndoDigestOf[t] : t \in EndoTuples }) = Cardinality(EndoTuples)
    /\ Cardinality({ BlockHeaderDigestOf[t] : t \in BlockHeaderTuples })
           = Cardinality(BlockHeaderTuples)

(***************************************************************************)
(* C24: the digest the code computes for a tuple is H(public key bytes,    *)
(* slot, index, content hash bytes) for endorsements and H(public key      *)
(* bytes, slot, content hash bytes) for block headers, in that order;      *)
(* distinct tuples have distinct digests; and a signature that             *)
(* construction, is_valid or is_also_for_* accepted for a tuple is a       *)
(* signature over the digest of that layout.                               *)
(***************************************************************************)
C24_SigningDigestLayout ==
    /\ DigestsFollowLayout
    /\ DigestsAreDistinct
    /\ \A u \in DigestUses :
          /\ u.tuple \in EndoTuples \cup BlockHeaderTuples
          /\ u.accepted => u.signature.digest = LayoutOf(u.tuple)
          /\ u.signature.digest = LayoutOf(u.tuple) =>
                IsOk(verify_signature(u.signature.signer, DigestOf(u.tuple), u.signature))

C24_Witness ==
    /\ origin = "endorsements"
    /\ ValidIs(TRUE)
    /\ AlsoIs(TRUE)
    /\ ~BuiltFromThird
    /\ \E u \in DigestUses :
          /\ u.tuple[2].period >= 128
          /\ u.tuple[3] > 0
          /\ u.signature = s_3.signature

\* The constructor called on the same two objects in the other order.
Swapped == TryFromAgain(origin, s_2, s_1)

SwapSucceedsAlike == IsOk(res) <=> IsOk(Swapped)

SwapExchangesHalves ==
    /\ Swapped.val.variant = res.val.variant
    /\ Swapped.val.public_key = res.val.public_key
    /\ Swapped.val.slot = res.val.slot
    /\ res.val.variant = "Endorsement" => Swapped.val.index = res.val.index
    /\ Swapped.val.hash_1 = res.val.hash_2
    /\ Swapped.val.signature_1 = res.val.signature_2
    /\ Swapped.val.hash_2 = res.val.hash_1
    /\ Swapped.val.signature_2 = res.val.signature_1

SwapBothValid ==
    /\ is_valid(res.val) = Ok(TRUE)
    /\ is_valid(Swapped.val) = Ok(TRUE)

SwapDiffers ==
    /\ Swapped.val # res.val
    /\ serialize("Denunciation", Swapped.val, << >>) # serialize("Denunciation", res.val, << >>)
    /\ serialize(res.val.variant, Swapped.val, << >>) # serialize(res.val.variant, res.val, << >>)

(***************************************************************************)
(* C25: the constructor succeeds on (a, b) exactly when it succeeds on     *)
(* (b, a); the two denunciations have the same public key, slot and index  *)
(* and each other's (hash_1, signature_1) and (hash_2, signature_2); both  *)
(* are valid; and they are different values with different bytes.          *)
(***************************************************************************)
C25_SwappedConstruction ==
    Constructed =>
        /\ SwapSucceedsAlike
        /\ IsOk(res) => (SwapExchangesHalves /\ SwapBothValid /\ SwapDiffers)

\* What does hold: the outcome and the exchange for every pair, the rest for two
\* objects with different contents.
SwapOfDistinctContents ==
    Constructed =>
        /\ SwapSucceedsAlike
        /\ IsOk(res) => SwapExchangesHalves
        /\ (IsOk(res) /\ s_1.content # s_2.content) => (SwapBothValid /\ SwapDiffers)

\* The denunciations the constructor builds from the third object and each of the
\* two the denunciation at hand was built from.
FirstWithThird == TryFromAgain(origin, s_1, s_3)
SecondWithThird == TryFromAgain(origin, s_2, s_3)

ValidAtSamePosition(r) ==
    /\ IsOk(r)
    /\ is_valid(r.val) = Ok(TRUE)
    /\ r.val.variant = de.val.variant
    /\ r.val.public_key = de.val.public_key
    /\ r.val.slot = de.val.slot
    /\ de.val.variant = "Endorsement" => r.val.index = de.val.index

\* The denunciation at hand was built by a constructor and covers the third
\* object, whose id is its signing digest.
CoversThird ==
    /\ Constructed
    /\ IsOk(res)
    /\ AlsoIs(TRUE)
    /\ s_3.id = OwnDigest(s_3)

(***************************************************************************)
(* C26: when a constructed denunciation covers a third object whose id is  *)
(* its signing digest, the constructor succeeds on the third object paired *)
(* with either of the two the denunciation was built from, and each result *)
(* is a valid denunciation of the same public key, slot and index.         *)
(***************************************************************************)
C26_CoveredPairsConstruct ==
    CoversThird => (ValidAtSamePosition(FirstWithThird) /\ ValidAtSamePosition(SecondWithThird))

\* What does hold: the same, when the ids of the two objects the denunciation
\* was built from are their signing digests too.
CoveredPairsOfOwnIds ==
    (CoversThird /\ s_1.id = OwnDigest(s_1) /\ s_2.id = OwnDigest(s_2))
        => (ValidAtSamePosition(FirstWithThird) /\ ValidAtSamePosition(SecondWithThird))

CoveredPairsOfOwnIds_Witness ==
    /\ CoversThird
    /\ s_1.id = OwnDigest(s_1)
    /\ s_2.id = OwnDigest(s_2)
    /\ de.val.variant = "Endorsement"

\* The error each stage of try_from raises for an object: the serializer's, for
\* its content, and the verifier's, for its signature against its own digest.
SerializationErrorOf(e) == DenunciationError(SerializationError, e.content)
SignatureErrorOf(e) ==
    DenunciationError(SignatureError, [hash |-> OwnDigest(e), signature |-> e.signature])

(***************************************************************************)
(* C27: a failing try_from returns one error, chosen in this order: the    *)
(* InvalidInput checks; then Serialization, from hashing the content of    *)
(* the first object, then from that of the second; then Signature, from    *)
(* verifying the first object's signature, then the second's.  With both   *)
(* signatures invalid the error is that of the first object's signature,   *)
(* whatever the second's is.                                               *)
(***************************************************************************)
C27_ErrorPrecedence ==
    Constructed =>
        /\ res.tag = "Err" =>
              res.val.kind \in {InvalidInput, SerializationError, SignatureError}
        /\ res.val =
              IF PreconditionFails THEN DenunciationError(InvalidInput, << >>)
              ELSE IF ~Serializes(s_1) THEN SerializationErrorOf(s_1)
              ELSE IF ~Serializes(s_2) THEN SerializationErrorOf(s_2)
              ELSE IF ~OwnSignatureVerifies(s_1) THEN SignatureErrorOf(s_1)
              ELSE IF ~OwnSignatureVerifies(s_2) THEN SignatureErrorOf(s_2)
              ELSE de.val

C27_Witness ==
    /\ origin = "endorsements"
    /\ ~PreconditionFails
    /\ Serializes(s_1)
    /\ Serializes(s_2)
    /\ ~OwnSignatureVerifies(s_1)
    /\ ~OwnSignatureVerifies(s_2)
    /\ SignatureErrorOf(s_1) # SignatureErrorOf(s_2)
    /\ res = Err(SignatureErrorOf(s_1))

\* Both contents are rejected and differ: the error is that of the first.
C27_WitnessSerialization ==
    /\ Constructed
    /\ ~PreconditionFails
    /\ ~Serializes(s_1)
    /\ ~Serializes(s_2)
    /\ s_1.content # s_2.content
    /\ ~OwnSignatureVerifies(s_1)
    /\ res = Err(SerializationErrorOf(s_1))

\* sg is the signature of d's key over the digest of the other variant for d's
\* key, slot and hash h: for a block header denunciation the endorsement digest
\* at some index, for an endorsement denunciation the block header digest.
SignedAsOtherVariant(d, h, sg) ==
    /\ sg.signer = d.public_key
    /\ IF d.variant = "BlockHeader"
       THEN \E i \in CrossIndexes :
              sg.digest = signing_digest(preimage_endorsement(d.public_key, d.slot, i, h))
       ELSE sg.digest = signing_digest(preimage_block_header(d.public_key, d.slot, h))

(***************************************************************************)
(* C28: a block header denunciation with a signature made over the         *)
(* endorsement digest of its key, slot and hash, at any index, gets false  *)
(* from is_valid, and so does an endorsement denunciation with a signature *)
(* made over the block header digest of its key, slot and hash.            *)
(***************************************************************************)
C28_VariantsAreDomainSeparated ==
    (/\ Checked
     /\ \/ SignedAsOtherVariant(de.val, de.val.hash_1, de.val.signature_1)
        \/ SignedAsOtherVariant(de.val, de.val.hash_2, de.val.signature_2))
    => ValidIs(FALSE)

C28_Witness ==
    /\ Checked
    /\ de.val.variant = "BlockHeader"
    /\ de.val.hash_1 # de.val.hash_2
    /\ SignedAsOtherVariant(de.val, de.val.hash_1, de.val.signature_1)
    /\ SignedAsOtherVariant(de.val, de.val.hash_2, de.val.signature_2)
    /\ ValidIs(FALSE)

\* The same assembly with signatures over the digests of its own variant is valid.
C28_WitnessOwnVariant ==
    /\ Checked
    /\ de.val.variant = "BlockHeader"
    /\ ~SignedAsOtherVariant(de.val, de.val.hash_1, de.val.signature_1)
    /\ ~SignedAsOtherVariant(de.val, de.val.hash_2, de.val.signature_2)
    /\ ValidIs(TRUE)

C28_WitnessEndorsement ==
    /\ Checked
    /\ de.val.variant = "Endorsement"
    /\ de.val.hash_1 # de.val.hash_2
    /\ SignedAsOtherVariant(de.val, de.val.hash_1, de.val.signature_1)
    /\ SignedAsOtherVariant(de.val, de.val.hash_2, de.val.signature_2)
    /\ ValidIs(FALSE)

\* is_valid does not return Ok(true) on d.
Invalid(d) == is_valid(d) # Ok(TRUE)

(***************************************************************************)
(* C29: deserialization does not check validity: the encoding of a         *)
(* denunciation within the deserializer's bounds decodes to that           *)
(* denunciation whether it is valid or not (equal hashes, signatures that  *)
(* do not verify), and is_valid returns on the decoded value what it       *)
(* returns on the encoded one.                                             *)
(***************************************************************************)
C29_DecodingIgnoresValidity ==
    (BufferIsEncoding /\ Decoded /\ InRange(de.val, de_der.val)) =>
        /\ DecodeOk
        /\ DecodedValue = de.val
        /\ is_valid(DecodedValue) = is_valid(de.val)
        /\ Invalid(de.val) => Invalid(DecodedValue)

C29_Witness ==
    /\ BufferIsEncoding
    /\ DecodeOk
    /\ de.val.variant = "Endorsement"
    /\ de.val.hash_1 = de.val.hash_2
    /\ DecodedValue = de.val
    /\ is_valid(DecodedValue) = Ok(FALSE)

\* The same for signatures that do not verify, through the tagged deserializer.
C29_WitnessSignatures ==
    /\ BufferIsEncoding
    /\ DecodeOk
    /\ de_ser.val = "Denunciation"
    /\ de.val.hash_1 # de.val.hash_2
    /\ de.val.signature_1 # de.val.signature_2
    /\ DecodedValue = de.val
    /\ is_valid(DecodedValue) = Ok(FALSE)

=============================================================================
